---------------------------- MODULE Spec2Model ----------------------------
(***************************************************************************)
(* Streaming chat-completion pipeline of jiyeol-lee/openai:                *)
(*   StreamReader.Recv           (chat.go, the line parser)                *)
(*   startChunkPump / deferredCloser and the inline reader goroutine       *)
(*   CreateChatCompletionStreamWithMarkdown (both revisions in the tree)   *)
(*   StreamMarkdown / streamRaw / streamWithViewport / markdownModel       *)
(*                                                                         *)
(* The tree holds two revisions of CreateChatCompletionStreamWithMarkdown: *)
(*   rev = "pump" : the revision with deferredCloser and startChunkPump    *)
(*   rev = "once" : src/chat.go, sync.Once close and an inline goroutine   *)
(* Both are modelled; rev is fixed by Init.                                *)
(***************************************************************************)
EXTENDS Integers, Sequences, FiniteSets, TLC

(***************************************************************************)
(* Bounds of the model.                                                    *)
(***************************************************************************)
\* longest event-stream input (in lines) of the pipeline specification
MaxLines == 2
\* most interrupt-key events delivered to one render loop
MaxKeys == 1
\* longest input (in lines, before the final line) of the parser specification
MaxRecvLines == 3
\* longest input (in lines) of the pipeline under fair scheduling
MaxLiveLines == 1
\* further interrupt keys delivered after the first MaxKeys
MaxMoreKeys == 1
\* results of kind "fragment" an arbitrary fragment source gives
MaxFeed == 2
\* animated cells of a loader (loaderCharCyclingCount, scaled down)
LoaderCells == 2

(***************************************************************************)
(* Text.  A text is a sequence of characters; the empty text is << >>.     *)
(***************************************************************************)
EmptyText == << >>
TextHi == <<"H", "i">>
TextThere == <<"t">>

IsPrefix(s, t) == Len(s) <= Len(t) /\ SubSeq(t, 1, Len(s)) = s

(***************************************************************************)
(* Errors.  kind says who made the error, cause what errors.Is would find  *)
(* wrapped inside it.                                                      *)
(***************************************************************************)
Err(k, c) == [kind |-> k, cause |-> c]
NoErr == Err("nil", "none")
ErrCanceled == Err("ctx", "canceled")
\* errors.Is(e, context.Canceled)
IsCanceled(e) == e.cause = "canceled"

(***************************************************************************)
(* Lines of the event stream.  A line is a sequence of tokens:             *)
(*   sp      one whitespace character (space, tab, CR)                     *)
(*   data:   the five characters "data:"                                   *)
(*   done    the characters "[DONE]"                                       *)
(*   json    a JSON object that decodes; choices holds the delta contents  *)
(*   bad     characters that are no JSON value                             *)
(*   junk    any other characters (a comment, "event: x", ...)             *)
(* so that "data: " is <<data:, sp>>.  The newline is not part of a line.  *)
(***************************************************************************)
Tok(t) == [t |-> t, choices |-> << >>]
Json(cs) == [t |-> "json", choices |-> cs]
Sp == Tok("sp")
DataColon == Tok("data:")
DataPrefix == <<DataColon, Sp>>
Sentinel == <<Tok("done")>>

LineOf(payload) == DataPrefix \o payload
LineDone == LineOf(Sentinel)
LineBad == LineOf(<<Tok("bad")>>)
LineHi == LineOf(<<Json(<<TextHi>>)>>)
LineThere == LineOf(<<Json(<<TextThere>>)>>)
LineEmptyDelta == LineOf(<<Json(<<EmptyText>>)>>)
LineNoChoices == LineOf(<<Json(<< >>)>>)
LineTwoChoices == LineOf(<<Json(<<TextThere, TextHi>>)>>)
LineBlank == << >>
LineSpaces == <<Sp>>
LineComment == <<Tok("junk")>>
LineCRLF == LineOf(<<Json(<<TextHi>>), Sp>>)
LineIndented == <<Sp>> \o LineThere
LineDataOnly == DataPrefix

\* bytes.TrimSpace
RECURSIVE TrimLeft(_)
TrimLeft(l) == IF l # << >> /\ Head(l) = Sp THEN TrimLeft(Tail(l)) ELSE l
RECURSIVE TrimRight(_)
TrimRight(l) ==
    IF l # << >> /\ l[Len(l)] = Sp THEN TrimRight(SubSeq(l, 1, Len(l) - 1)) ELSE l
TrimSpace(l) == TrimRight(TrimLeft(l))

\* bytes.HasPrefix / bytes.TrimPrefix
HasPrefix(l, p) == Len(l) >= Len(p) /\ SubSeq(l, 1, Len(p)) = p
TrimPrefix(l, p) == IF HasPrefix(l, p) THEN SubSeq(l, Len(p) + 1, Len(l)) ELSE l

\* mutant: a payload that is no JSON value decodes to an empty response
UnmarshalLenient(data) ==
    LET v == TrimSpace(data)
    IN  IF Len(v) = 1 /\ v[1].t = "json"
        THEN [ok |-> TRUE, choices |-> v[1].choices]
        ELSE [ok |-> TRUE, choices |-> << >>]

\* json.Unmarshal(data, &response): one JSON value, whitespace around it allowed
Unmarshal(data) ==
    LET v == TrimSpace(data)
    IN  IF Len(v) = 1 /\ v[1].t = "json"
        THEN [ok |-> TRUE, choices |-> v[1].choices]
        ELSE [ok |-> FALSE, choices |-> << >>]

\* mutant: the last line is handed over whether or not a newline ends it
ReadBytesKeepsLast(in, pos) ==
    IF pos > Len(in.lines)
    THEN [eof |-> TRUE, line |-> << >>]
    ELSE [eof |-> FALSE, line |-> in.lines[pos]]

\* bufio.Reader.ReadBytes('\n') at line pos of input in: the last line of an
\* input that does not end in a newline comes back together with io.EOF
ReadBytes(in, pos) ==
    IF pos > Len(in.lines) \/ (pos = Len(in.lines) /\ ~in.term)
    THEN [eof |-> TRUE, line |-> << >>]
    ELSE [eof |-> FALSE, line |-> in.lines[pos]]

\* the error of json.Unmarshal(data, &response) for data that is no JSON
\* value: its text names the fault and the one byte at which decoding
\* stopped, its Offset the place of that byte (counted in tokens here)
jsonError(data) ==
    LET v == TrimLeft(data)
        lead == Len(data) - Len(v)
        rest == IF v = << >> THEN << >> ELSE TrimLeft(Tail(v))
        ByteOf(tok) == [t |-> tok.t, byte |-> 1]
    IN  IF v = << >>
        THEN [text |-> <<Tok("unexpected end of JSON input")>>, Offset |-> Len(data)]
        ELSE IF v[1].t # "json"
        THEN [text |-> <<Tok("invalid character "), ByteOf(v[1]),
                         Tok(" looking for beginning of value")>>,
              Offset |-> lead + 1]
        ELSE [text |-> <<Tok("invalid character "), ByteOf(rest[1]),
                         Tok(" after top-level value")>>,
              Offset |-> Len(data) - Len(rest) + 1]

\* fmt.Errorf("failed to decode stream chunk: %w", err)
decodeError(data) ==
    [text |-> <<Tok("failed to decode stream chunk: ")>> \o jsonError(data).text,
     wrapped |-> jsonError(data)]

\* StreamReader.Recv, reading from line pos on; pos of the result is the next
\* line to read.  kind: "ok" (a decoded response), "eof" (io.EOF), "decode".
RECURSIVE Recv(_, _)
Recv(in, pos) ==
    LET r == ReadBytes(in, pos)
        line == TrimSpace(r.line)
        data == TrimPrefix(line, DataPrefix)
    IN  IF r.eof THEN [kind |-> "eof", choices |-> << >>, pos |-> pos]
        ELSE IF Len(line) = 0 THEN Recv(in, pos + 1)
        ELSE IF ~HasPrefix(line, DataPrefix) THEN Recv(in, pos + 1)
        ELSE IF data = Sentinel THEN [kind |-> "eof", choices |-> << >>, pos |-> pos + 1]
        ELSE IF ~Unmarshal(data).ok
             THEN [kind |-> "decode", choices |-> << >>, pos |-> pos + 1,
                   err |-> decodeError(data)]
        ELSE [kind |-> "ok", choices |-> Unmarshal(data).choices, pos |-> pos + 1]

\* mutant: the last choice instead of the first
extractDeltaTextLast(choices) ==
    IF Len(choices) = 0 THEN EmptyText ELSE choices[Len(choices)]

\* extractDeltaText; the inline goroutine of chat.go tests the same condition
extractDeltaText(choices) == IF Len(choices) = 0 THEN EmptyText ELSE choices[1]


(***************************************************************************)
(* The loader (loader.go).  Times are in milliseconds; t is time.Now() of  *)
(* the call.  A loader is a record; NoLoader stands for a model without one.*)
(***************************************************************************)
\* minVisible: 350 * time.Millisecond
minVisible == 350
\* loaderInitialBoost
loaderInitialBoost == 200
\* makeInitialDelay: rand.Int31n(3) * 40ms
InitialDelays == {k * 40 : k \in 0 .. 2}
\* loaderRunes, two of them: '0' and '~'.  A rune is its code point: 46 is
\* '.', 32 the space
Glyphs == {48, 126}
\* the random runes one update draws, one for each cell
GlyphDraws == [1 .. LoaderCells -> Glyphs]
\* the initial delays newLoader draws, one for each cell
DelayDraws == [1 .. LoaderCells -> InitialDelays]
\* the zero rune, which View leaves out
ZeroRune == 0
ellipsisFrames == << << >>, <<46>>, <<46, 46>>, <<46, 46, 46>> >>

\* mutant: a cell settles whether or not it has a final value and a lifetime
charStateAnyCell(c, start, t) ==
    IF t < start + c.initialDelay THEN "loaderInitial"
    ELSE IF t > start + c.initialDelay + c.lifetime
    THEN "loaderSettled"
    ELSE "loaderCycling"

\* loaderChar.state(start) at time t.  The cells of loader.go have finalValue
\* -1 and lifetime 0; the label cells of part_005 have a rune and a lifetime
charState(c, start, t) ==
    IF t < start + c.initialDelay THEN "loaderInitial"
    ELSE IF c.finalValue > 0 /\ c.lifetime > 0 /\ t > start + c.initialDelay + c.lifetime
    THEN "loaderSettled"
    ELSE "loaderCycling"

\* mutant: update deactivates as soon as a stop is requested
deactivateAtOnce(l, t) == l.shouldStop

\* the condition at the end of update
deactivate(l, t) == l.shouldStop /\ t - l.displayStart >= minVisible

\* loader.update(); g: the runes randomize() draws
update(l, t, g) ==
    IF ~l.active THEN l
    ELSE [l EXCEPT
            !.cyclingChars =
                [i \in 1 .. Len(l.cyclingChars) |->
                    LET c == l.cyclingChars[i]
                        st == charState(c, l.start, t)
                    IN  [c EXCEPT !.currentValue =
                            IF st = "loaderInitial" THEN 46
                            ELSE IF st = "loaderCycling" THEN g[i]
                            ELSE c.finalValue]],
            !.active = ~deactivate(l, t)]

\* newLoader() at time t; d: the initial delays drawn, g: the runes of its update
newLoader(t, d, g) ==
    update([made |-> TRUE,
            start |-> t - loaderInitialBoost,
            displayStart |-> t,
            active |-> TRUE,
            shouldStop |-> FALSE,
            cyclingChars |-> [i \in 1 .. LoaderCells |->
                                 [finalValue |-> -1, currentValue |-> ZeroRune,
                                  initialDelay |-> d[i], lifetime |-> 0]],
            ellipsisIdx |-> 0,
            lastWidth |-> 0], t, g)

NoLoader ==
    [made |-> FALSE, start |-> 0, displayStart |-> 0, active |-> FALSE,
     shouldStop |-> FALSE, cyclingChars |-> << >>, ellipsisIdx |-> 0, lastWidth |-> 0]

\* mutant: a stop request hides the loader
requestStopHides(l) == [l EXCEPT !.shouldStop = TRUE, !.active = FALSE]

\* loader.requestStop()
requestStop(l) == [l EXCEPT !.shouldStop = TRUE]

\* mutant: the ellipsis skips a frame
advanceEllipsisSkips(l) ==
    IF ~l.active THEN l
    ELSE [l EXCEPT !.ellipsisIdx = (l.ellipsisIdx + 2) % Len(ellipsisFrames)]

\* loader.advanceEllipsis()
advanceEllipsis(l) ==
    IF ~l.active THEN l
    ELSE [l EXCEPT !.ellipsisIdx = (l.ellipsisIdx + 1) % Len(ellipsisFrames)]

\* mutant: View never pads
loaderViewUnpadded(l) ==
    LET shown == SelectSeq([i \in 1 .. Len(l.cyclingChars) |->
                               l.cyclingChars[i].currentValue],
                           LAMBDA r : r # ZeroRune)
        randomText == IF shown = << >>
                      THEN [i \in 1 .. (LoaderCells \div 2) |-> 46]
                      ELSE shown
        text == randomText \o <<32>> \o ellipsisFrames[l.ellipsisIdx + 1]
        width == Len(text)
    IN  IF width < l.lastWidth
        THEN [text |-> text, l |-> l]
        ELSE [text |-> text, l |-> [l EXCEPT !.lastWidth = width]]

\* loader.View(): the text of the frame, and the loader with lastWidth kept
loaderView(l) ==
    LET shown == SelectSeq([i \in 1 .. Len(l.cyclingChars) |->
                               l.cyclingChars[i].currentValue],
                           LAMBDA r : r # ZeroRune)
        randomText == IF shown = << >>
                      THEN [i \in 1 .. (LoaderCells \div 2) |-> 46]
                      ELSE shown
        text == randomText \o <<32>> \o ellipsisFrames[l.ellipsisIdx + 1]
        width == Len(text)
    IN  IF width < l.lastWidth
        THEN [text |-> text \o [i \in 1 .. (l.lastWidth - width) |-> 32], l |-> l]
        ELSE [text |-> text, l |-> [l EXCEPT !.lastWidth = width]]

(***************************************************************************)
(* The loader of src/unnamed/part_005, which has label cells beside the    *)
(* cycling ones: each label cell has a rune of the label as its final      *)
(* value, an initial delay and a lifetime.                                 *)
(***************************************************************************)
\* label cells of the model's loader
LabelCells == 1
\* makeLifetime: rand.Int31n(5) * 160ms + 120ms
Lifetimes == {k * 160 + 120 : k \in 0 .. 4}
\* the label " Preparing response", its first runes
label == <<32, 80>>
\* the initial delay and the lifetime newLoader draws for each label cell
LabelDraws == [1 .. LabelCells -> InitialDelays \X Lifetimes]
\* the random runes one update draws for the label cells
LabelGlyphDraws == [1 .. LabelCells -> Glyphs]

\* loader.update() of part_005; g, gl: the runes randomize() draws
updateLabelled(l, t, g, gl) ==
    LET pass(cells, gg) ==
            [i \in 1 .. Len(cells) |->
                LET c == cells[i]
                    st == charState(c, l.start, t)
                IN  [c EXCEPT !.currentValue =
                        IF st = "loaderInitial" THEN 46
                        ELSE IF st = "loaderCycling" THEN gg[i]
                        ELSE c.finalValue]]
    IN  IF ~l.active THEN l
        ELSE [l EXCEPT !.cyclingChars = pass(l.cyclingChars, g),
                       !.labelChars = pass(l.labelChars, gl),
                       !.active = ~deactivate(l, t)]

\* newLoader() of part_005 at time t; d, dl: the delays and lifetimes drawn
newLoaderLabelled(t, d, dl, g, gl) ==
    updateLabelled([made |-> TRUE,
                    start |-> t - loaderInitialBoost,
                    displayStart |-> t,
                    active |-> TRUE,
                    shouldStop |-> FALSE,
                    cyclingChars |-> [i \in 1 .. LoaderCells |->
                                         [finalValue |-> -1, currentValue |-> ZeroRune,
                                          initialDelay |-> d[i], lifetime |-> 0]],
                    labelChars |-> [i \in 1 .. LabelCells |->
                                       [finalValue |-> label[i], currentValue |-> ZeroRune,
                                        initialDelay |-> dl[i][1], lifetime |-> dl[i][2]]],
                    ellipsisIdx |-> 0], t, g, gl)

\* the runs of the pipeline use one draw of the random source; the loader's
\* own specification covers them all
PipeDelays == [i \in 1 .. LoaderCells |-> 0]
PipeGlyphs == [i \in 1 .. LoaderCells |-> 48]

(***************************************************************************)
(* The viewport of the model: window size and viewport size.               *)
(***************************************************************************)
\* viewport.New(0, 0)
NoViewport == [windowWidth |-> 0, windowHeight |-> 0, Width |-> 0, Height |-> 0]

\* contentLineCount: the newlines of the rendered text
contentLineCount(r) == Len(SelectSeq(r, LAMBDA ch : ch = "\n"))

\* mutant: the viewport keeps the height it has
resizeViewportKeeps(v, r) == v

\* resizeViewport with rendered text r
resizeViewport(v, r) ==
    LET contentHeight == contentLineCount(r)
        h0 == IF v.windowHeight = 0 THEN v.Height ELSE v.windowHeight
        h1 == IF contentHeight > 0 /\ (h0 = 0 \/ contentHeight < h0)
              THEN contentHeight ELSE h0
    IN  [v EXCEPT !.Height = IF h1 < 1 THEN 1 ELSE h1]


(***************************************************************************)
(* State.                                                                  *)
(***************************************************************************)
VARIABLES
    rev,          \* which revision of the orchestrator runs: "pump" or "once"
    raw,          \* opts.Raw
    input,        \* the response body: [lines, term]; term: the last line ends in '\n'
    callerErr,    \* ctx.Err() of the caller's context
    readerErr,    \* readerCtx.Err()
    chunkErr,     \* chunkCtx.Err() (StreamMarkdown's context)
    mainPc,       \* CreateChatCompletionStreamWithMarkdown: start, ui, wait, returned
    result,       \* its return value
    pumpPc,       \* the pump goroutine's position
    pos,          \* next line of input the stream reader reads
    cur,          \* the text the pump is sending
    finalErr,     \* finalErr (err in chat.go) of the pump goroutine
    closer,       \* deferredCloser: [closed, fn]; fn: a function is registered
    onceDone,     \* closeStream (sync.Once) has run
    streamCloses, \* calls of stream.Close so far
    chanCloses,   \* calls of close(chunkCh) so far
    doneSlot,     \* contents of doneCh / streamErr (capacity 1)
    fetch,        \* the fragment-wait (next): [st, text, err]
    uiPc,         \* StreamMarkdown: idle, loop, key2, key3, raw, exited
    started,      \* startStreamMsg has been processed
    quitPending,  \* tea.Quit has been returned and not yet acted on
    keys,         \* interrupt keys processed
    content,      \* markdownModel.content
    rendered,     \* markdownModel.rendered
    merr,         \* markdownModel.err
    uiErr,        \* what StreamMarkdown returned
    sink,         \* what has been written to w, one element per write
    hist,         \* history of the run, read by the properties only
    now,          \* the clock, in ms
    loader,       \* markdownModel.loader
    vp,           \* markdownModel.windowWidth, windowHeight and viewport size
    timers,       \* tea.Tick commands pending: [step, ellipsis]
    rPos,         \* parser specification: next line to read
    rOut,         \* parser specification: fragments yielded so far
    rEnd          \* parser specification: "run", "eof" or "decode"

cfgVars == <<rev, raw, input>>
ctxVars == <<callerErr, readerErr, chunkErr>>
mainVars == <<mainPc, result>>
pumpVars == <<pumpPc, pos, cur, finalErr>>
closeVars == <<closer, onceDone, streamCloses>>
chanVars == <<chanCloses, doneSlot>>
uiVars == <<uiPc, started, quitPending, keys, content, rendered, merr, uiErr, sink>>
recvVars == <<rPos, rOut, rEnd>>
viewVars == <<now, loader, vp, timers>>
vars == <<cfgVars, ctxVars, mainVars, pumpVars, closeVars, chanVars, fetch, uiVars,
          hist, recvVars, viewVars>>

\* lines the pipeline specification draws its inputs from
PipeLines == {LineHi, LineThere, LineEmptyDelta, LineBad, LineDone}

RECURSIVE SeqsUpTo(_, _)
SeqsUpTo(S, n) ==
    IF n = 0 THEN {<< >>}
    ELSE LET shorter == SeqsUpTo(S, n - 1)
         IN  shorter \cup {Append(s, x) : s \in shorter, x \in S}

\* the pipeline's inputs end in a newline; the parser specification below also
\* reads inputs whose last line does not
Inputs == {[lines |-> l, term |-> TRUE] : l \in SeqsUpTo(PipeLines, MaxLines)}

FetchNone == [st |-> "none", text |-> EmptyText, err |-> NoErr]
FetchIssued == [st |-> "issued", text |-> EmptyText, err |-> NoErr]
FetchParked == [st |-> "parked", text |-> EmptyText, err |-> NoErr]
FetchSawClosed == [st |-> "sawClosed", text |-> EmptyText, err |-> NoErr]
FetchChunk(t) == [st |-> "chunk", text |-> t, err |-> NoErr]
FetchDone(e) == [st |-> "done", text |-> EmptyText, err |-> e]

HistInit ==
    [obtained |-> 0,        \* non-empty fragments the pump got from Recv
     received |-> 0,        \* fragments a fragment-wait took from the queue
     appended |-> 0,        \* fragment events the render loop processed
     recvCalls |-> 0,       \* calls of Recv by the pump
     published |-> 0,       \* sends on doneCh / streamErr
     pubErr |-> NoErr,      \* the outcome published
     pumpErr |-> NoErr,     \* the outcome the orchestrator read from doneCh
     opened |-> FALSE,      \* the stream was opened
     openFailed |-> FALSE,
     recvFailed |-> FALSE,  \* Recv returned a transport or decode error
     decodeSeen |-> FALSE,  \* Recv returned a decode error
     renderFailed |-> FALSE,
     writeFailed |-> FALSE,
     cancelEarly |-> FALSE, \* cancellation fired before any fragment event
     interrupted |-> FALSE, \* an interrupt key was processed
     doneNil |-> FALSE,     \* the loop processed a done event without error
     userCancels |-> 0,     \* calls of the caller's Cancel callback
     uiFrames |-> 0,        \* 1: the tea program has drawn on uiWriter
     cleared |-> 0,         \* 1: clearViewport has written to uiWriter
     stopCalls |-> 0,       \* loader specification: calls of requestStop (0, 1, many)
     updatedAfterStop |-> FALSE] \* ... update ran after a requestStop

\* the state before CreateChatCompletionStreamWithMarkdown has done anything
PipeInit ==
    /\ callerErr = NoErr /\ readerErr = NoErr /\ chunkErr = NoErr
    /\ mainPc = "start" /\ result = NoErr
    /\ pumpPc = "idle" /\ pos = 1 /\ cur = EmptyText /\ finalErr = NoErr
    /\ closer = [closed |-> FALSE, fn |-> FALSE] /\ onceDone = FALSE /\ streamCloses = 0
    /\ chanCloses = 0 /\ doneSlot = << >>
    /\ fetch = FetchNone
    /\ uiPc = "idle" /\ started = FALSE /\ quitPending = FALSE /\ keys = 0
    /\ content = EmptyText /\ rendered = EmptyText /\ merr = NoErr /\ uiErr = NoErr
    /\ sink = << >>
    /\ hist = HistInit

\* no model has been built yet; the clock starts at 0
NoTimers == [step |-> FALSE, ellipsis |-> FALSE]
ViewInit == now = 0 /\ loader = NoLoader /\ vp = NoViewport /\ timers = NoTimers

Init ==
    /\ rev \in {"pump", "once"}
    /\ raw \in BOOLEAN
    /\ input \in Inputs
    /\ PipeInit
    /\ ViewInit
    /\ rPos = 1 /\ rOut = << >> /\ rEnd = "idle"


(***************************************************************************)
(* Contexts and channels.                                                  *)
(***************************************************************************)
\* mutant: an unbuffered result slot
doneChCapUnbuffered == 1 - 1

\* capacity of doneCh / streamErr: make(chan error, 1)
doneChCap == 1

\* ctx.Err() after a cancellation with error e: the first cancellation stays
Cancelled(old, e) == IF old = NoErr THEN e ELSE old

\* A goroutine blocked in a select is woken by the first case that becomes
\* ready and then runs that case: the pump blocked in its send by ctx.Done(),
\* the fragment-wait blocked in next by nextCtx.Done() or by close(chunkCh).
\* mutant: a cancellation does not reach a pump blocked in its send
WakePumpNever(pc) == pc

WakePump(pc) == IF pc = "sendParked" THEN "sendWoken" ELSE pc
WakeFetch(f, e) == IF f.st = "parked" THEN FetchDone(e) ELSE f
WakeFetchClosed(f) == IF f.st = "parked" THEN FetchSawClosed ELSE f

\* errors a failed open or a failed read can wrap: a transport failure, or the
\* context's error once the request's context is cancelled
IOCauses(ctxErr) == {"transport"} \cup (IF ctxErr = NoErr THEN {} ELSE {ctxErr.cause})

(***************************************************************************)
(* deferredCloser.  Each operator gives the closer's next state and whether *)
(* the registered function (stream.Close) is to be run by the caller.      *)
(***************************************************************************)
\* mutant: Set stores the function whether or not the closer is closed
deferredCloserSetLate(d) == [d |-> [d EXCEPT !.fn = TRUE], run |-> FALSE]

deferredCloserSet(d) ==
    IF d.closed THEN [d |-> d, run |-> TRUE]
    ELSE [d |-> [d EXCEPT !.fn = TRUE], run |-> FALSE]

\* mutant: Close without the closed check
deferredCloserCloseUnguarded(d) == [d |-> [d EXCEPT !.closed = TRUE], run |-> d.fn]

deferredCloserClose(d) ==
    IF d.closed THEN [d |-> d, run |-> FALSE]
    ELSE [d |-> [d EXCEPT !.closed = TRUE], run |-> d.fn]

\* sync.Once.Do of closeStreamFunc (chat.go): next state, and whether the
\* function (stream.Close) runs
closeStreamDo(done) == [done |-> TRUE, run |-> ~done]

(***************************************************************************)
(* The pump: the goroutine of startChunkPump (rev "pump") or the inline    *)
(* goroutine of chat.go (rev "once").                                      *)
(***************************************************************************)
\* mutant: the queue is closed first, and the goroutine ends there
PumpDefersQueueFirst == "dclosech"

\* first deferred call to run when the goroutine's body returns
PumpDefers == IF rev = "pump" THEN "dclose" ELSE "dpublish"

\* mutant: a failed open leaves the error unset
openErrorDropped(c) == NoErr

\* fmt.Errorf("failed to create stream: %w", err)
openError(c) == Err("open", c)

\* stream, err := c.CreateChatCompletionStream(ctx, req) inside the goroutine
PumpOpen ==
    /\ pumpPc = "open"
    /\ \/ /\ pumpPc' = "set"
          /\ hist' = [hist EXCEPT !.opened = TRUE]
          /\ UNCHANGED finalErr
       \/ \E c \in IOCauses(readerErr) :
              /\ finalErr' = openError(c)
              /\ pumpPc' = "dpublish"
              /\ hist' = [hist EXCEPT !.openFailed = TRUE]
    /\ UNCHANGED <<cfgVars, ctxVars, mainVars, pos, cur, closeVars, chanVars, fetch,
                   uiVars, recvVars,
                   viewVars>>

\* closer.Set(func() { stream.Close() })
PumpSet ==
    /\ pumpPc = "set"
    /\ closer' = deferredCloserSet(closer).d
    /\ streamCloses' = streamCloses + (IF deferredCloserSet(closer).run THEN 1 ELSE 0)
    /\ pumpPc' = "recv"
    /\ UNCHANGED <<cfgVars, ctxVars, mainVars, pos, cur, finalErr, onceDone, chanVars,
                   fetch, uiVars, hist, recvVars,
                   viewVars>>

\* one iteration of the loop up to the select: stream.Recv() and the filter
PumpRecv ==
    /\ pumpPc = "recv"
    /\ \/ \E c \in IOCauses(readerErr) :
              /\ finalErr' = Err("stream", c)
              /\ pumpPc' = PumpDefers
              /\ hist' = [hist EXCEPT !.recvCalls = @ + 1, !.recvFailed = TRUE]
              /\ UNCHANGED <<pos, cur>>
       \/ LET r == Recv(input, pos)
              text == extractDeltaText(r.choices)
          IN  /\ pos' = r.pos
              /\ CASE r.kind = "eof" ->
                        /\ pumpPc' = PumpDefers
                        /\ hist' = [hist EXCEPT !.recvCalls = @ + 1]
                        /\ UNCHANGED <<cur, finalErr>>
                   [] r.kind = "decode" ->
                        /\ finalErr' = Err("stream", "decode")
                        /\ pumpPc' = PumpDefers
                        /\ hist' = [hist EXCEPT !.recvCalls = @ + 1,
                                                !.recvFailed = TRUE,
                                                !.decodeSeen = TRUE]
                        /\ UNCHANGED cur
                   [] r.kind = "ok" /\ text = EmptyText ->
                        /\ hist' = [hist EXCEPT !.recvCalls = @ + 1]
                        /\ UNCHANGED <<pumpPc, cur, finalErr>>
                   [] r.kind = "ok" /\ text # EmptyText ->
                        /\ cur' = text
                        /\ pumpPc' = "send"
                        /\ hist' = [hist EXCEPT !.recvCalls = @ + 1, !.obtained = @ + 1]
                        /\ UNCHANGED finalErr
    /\ UNCHANGED <<cfgVars, ctxVars, mainVars, closeVars, chanVars, fetch, uiVars,
                   recvVars,
                   viewVars>>

\* mutant: a buffered queue, whose send goes through without a receiver
SendReadyBuffered == TRUE

\* chunkCh is unbuffered (make(chan markdown.Chunk)): a send goes through only
\* into a receiver that is waiting in next
SendReady == fetch.st = "parked"

\* select { case chunkCh <- chunk: ; case <-ctx.Done(): } on arrival
PumpSelect ==
    /\ pumpPc = "send"
    /\ \/ /\ SendReady
          /\ fetch' = IF fetch.st = "parked" THEN FetchChunk(cur) ELSE fetch
          /\ pumpPc' = "recv"
          /\ hist' = [hist EXCEPT !.received = @ + (IF fetch.st = "parked" THEN 1 ELSE 0)]
          /\ UNCHANGED finalErr
       \/ /\ readerErr # NoErr
          /\ finalErr' = readerErr
          /\ pumpPc' = PumpDefers
          /\ UNCHANGED <<fetch, hist>>
       \/ /\ ~SendReady
          /\ readerErr = NoErr
          /\ pumpPc' = "sendParked"
          /\ UNCHANGED <<fetch, finalErr, hist>>
    /\ UNCHANGED <<cfgVars, ctxVars, mainVars, pos, cur, closeVars, chanVars, uiVars,
                   recvVars,
                   viewVars>>

\* mutant: a pump woken by the cancellation goes on with its loop
PumpWokenGoesOn ==
    /\ pumpPc = "sendWoken"
    /\ pumpPc' = "recv"
    /\ UNCHANGED <<cfgVars, ctxVars, mainVars, pos, cur, finalErr, closeVars, chanVars,
                   fetch, uiVars, hist, recvVars, viewVars>>

\* case <-ctx.Done(): of a pump that was blocked in the select
PumpWoken ==
    /\ pumpPc = "sendWoken"
    /\ finalErr' = readerErr
    /\ pumpPc' = PumpDefers
    /\ UNCHANGED <<cfgVars, ctxVars, mainVars, pos, cur, closeVars, chanVars, fetch,
                   uiVars, hist, recvVars,
                   viewVars>>

\* defer closer.Close(): the part under the mutex
PumpDeferClose ==
    /\ pumpPc = "dclose"
    /\ closer' = deferredCloserClose(closer).d
    /\ pumpPc' = IF deferredCloserClose(closer).run THEN "dclosefn" ELSE "dpublish"
    /\ UNCHANGED <<cfgVars, ctxVars, mainVars, pos, cur, finalErr, onceDone,
                   streamCloses, chanVars, fetch, uiVars, hist, recvVars,
                   viewVars>>

\* defer closer.Close(): fn() after the mutex is released
PumpDeferCloseFn ==
    /\ pumpPc = "dclosefn"
    /\ streamCloses' = streamCloses + 1
    /\ pumpPc' = "dpublish"
    /\ UNCHANGED <<cfgVars, ctxVars, mainVars, pos, cur, finalErr, closer, onceDone,
                   chanVars, fetch, uiVars, hist, recvVars,
                   viewVars>>

\* defer func() { doneCh <- finalErr }()
PumpPublish ==
    /\ pumpPc = "dpublish"
    /\ Len(doneSlot) < doneChCap
    /\ doneSlot' = Append(doneSlot, finalErr)
    /\ pumpPc' = "dclosech"
    /\ hist' = [hist EXCEPT !.published = @ + 1, !.pubErr = finalErr]
    /\ UNCHANGED <<cfgVars, ctxVars, mainVars, pos, cur, finalErr, closeVars,
                   chanCloses, fetch, uiVars, recvVars,
                   viewVars>>

\* mutant: as it closes the queue the pump stores its outcome in the model
PumpCloseChanSetsErr ==
    /\ pumpPc = "dclosech"
    /\ chanCloses' = chanCloses + 1
    /\ fetch' = WakeFetchClosed(fetch)
    /\ pumpPc' = "exit"
    /\ merr' = finalErr
    /\ UNCHANGED <<cfgVars, ctxVars, mainVars, pos, cur, finalErr, closeVars, doneSlot,
                   uiPc, started, quitPending, keys, content, rendered, uiErr, sink,
                   hist, recvVars, viewVars>>

\* defer close(chunkCh)
PumpCloseChan ==
    /\ pumpPc = "dclosech"
    /\ chanCloses' = chanCloses + 1
    /\ fetch' = WakeFetchClosed(fetch)
    /\ pumpPc' = "exit"
    /\ UNCHANGED <<cfgVars, ctxVars, mainVars, pos, cur, finalErr, closeVars, doneSlot,
                   uiVars, hist, recvVars,
                   viewVars>>

(***************************************************************************)
(* The fragment-wait: the closure next, run by waitForChunk's command      *)
(* (viewport mode) or by streamRaw (raw mode).                             *)
(***************************************************************************)
\* select { case <-nextCtx.Done(): ; case chunk, ok := <-chunks: } on arrival
FetchSelect ==
    /\ fetch.st = "issued"
    /\ \/ /\ chunkErr # NoErr
          /\ fetch' = FetchDone(chunkErr)
          /\ UNCHANGED <<pumpPc, hist>>
       \/ /\ pumpPc = "sendParked"
          /\ fetch' = FetchChunk(cur)
          /\ pumpPc' = "recv"
          /\ hist' = [hist EXCEPT !.received = @ + 1]
       \/ /\ chanCloses > 0
          /\ fetch' = FetchSawClosed
          /\ UNCHANGED <<pumpPc, hist>>
       \/ /\ chunkErr = NoErr /\ pumpPc # "sendParked" /\ chanCloses = 0
          /\ fetch' = FetchParked
          /\ UNCHANGED <<pumpPc, hist>>
    /\ UNCHANGED <<cfgVars, ctxVars, mainVars, pos, cur, finalErr, closeVars, chanVars,
                   uiVars, recvVars,
                   viewVars>>

\* if !ok { ... }: the pump revision reports io.EOF; chat.go reads streamErr
\* and reports io.EOF when it is nil.  A done result with NoErr stands for io.EOF.
FetchClosed ==
    /\ fetch.st = "sawClosed"
    /\ IF rev = "pump"
       THEN /\ fetch' = FetchDone(NoErr)
            /\ UNCHANGED doneSlot
       ELSE /\ Len(doneSlot) > 0
            /\ fetch' = FetchDone(Head(doneSlot))
            /\ doneSlot' = Tail(doneSlot)
    /\ UNCHANGED <<cfgVars, ctxVars, mainVars, pumpVars, closeVars, chanCloses, uiVars,
                   hist, recvVars,
                   viewVars>>


(***************************************************************************)
(* The caller's context.                                                   *)
(***************************************************************************)
\* the caller cancels ctx; readerCtx and chunkCtx are children of ctx and are
\* cancelled with it
CallerCancel ==
    /\ callerErr = NoErr
    /\ mainPc # "returned"
    /\ \E e \in {ErrCanceled} :
           /\ callerErr' = e
           /\ readerErr' = Cancelled(readerErr, e)
           /\ chunkErr' = Cancelled(chunkErr, e)
           /\ pumpPc' = IF readerErr = NoErr THEN WakePump(pumpPc) ELSE pumpPc
           /\ fetch' = IF chunkErr = NoErr THEN WakeFetch(fetch, e) ELSE fetch
    /\ hist' = [hist EXCEPT !.cancelEarly = @ \/ (hist.appended = 0 /\ uiPc # "exited")]
    /\ UNCHANGED <<cfgVars, mainVars, pos, cur, finalErr, closeVars, chanVars, uiVars,
                   recvVars,
                   viewVars>>

(***************************************************************************)
(* CreateChatCompletionStreamWithMarkdown.                                 *)
(***************************************************************************)
\* The function up to the call of StreamMarkdown.  The pump revision starts
\* the pump, which opens the stream itself; chat.go opens the stream first and
\* returns at once when that fails (running the deferred cancelReader).
Start ==
    /\ mainPc = "start"
    /\ IF rev = "pump"
       THEN /\ pumpPc' = "open"
            /\ mainPc' = "ui"
            /\ UNCHANGED <<result, readerErr, hist>>
       ELSE \/ /\ pumpPc' = "recv"
               /\ mainPc' = "ui"
               /\ hist' = [hist EXCEPT !.opened = TRUE]
               /\ UNCHANGED <<result, readerErr>>
            \/ \E c \in IOCauses(readerErr) :
                   /\ result' = openError(c)
                   /\ mainPc' = "returned"
                   /\ readerErr' = Cancelled(readerErr, ErrCanceled)
                   /\ hist' = [hist EXCEPT !.openFailed = TRUE]
                   /\ UNCHANGED pumpPc
    /\ UNCHANGED <<cfgVars, callerErr, chunkErr, pos, cur, finalErr, closeVars,
                   chanVars, fetch, uiVars, recvVars,
                   viewVars>>

\* mutant: the loop's error always wins
ResolveLoopFirst(ui, pump) == IF ui # NoErr THEN ui ELSE pump
\* mutant: the pump's outcome is not looked at
ResolveLoopOnly(ui, pump) == ui

\* the resolution of the loop's error and the pump's outcome (pump revision)
Resolve(ui, pump) ==
    IF ui # NoErr
    THEN IF IsCanceled(ui) /\ pump # NoErr THEN pump ELSE ui
    ELSE pump

\* The function after StreamMarkdown has returned.  Pump revision: read
\* pump.done, resolve, run the deferred cancelReader.  chat.go: return the
\* loop's error, run the deferred closeStreamFunc and cancelReader.
Return ==
    /\ mainPc = "wait"
    /\ IF rev = "pump"
       THEN /\ Len(doneSlot) > 0
            /\ result' = Resolve(uiErr, Head(doneSlot))
            /\ doneSlot' = Tail(doneSlot)
            /\ hist' = [hist EXCEPT !.pumpErr = Head(doneSlot)]
            /\ UNCHANGED <<onceDone, streamCloses>>
       ELSE /\ result' = uiErr
            /\ onceDone' = closeStreamDo(onceDone).done
            /\ streamCloses' = streamCloses + (IF closeStreamDo(onceDone).run THEN 1 ELSE 0)
            /\ UNCHANGED <<doneSlot, hist>>
    /\ readerErr' = Cancelled(readerErr, ErrCanceled)
    /\ pumpPc' = IF readerErr = NoErr THEN WakePump(pumpPc) ELSE pumpPc
    /\ mainPc' = "returned"
    /\ UNCHANGED <<cfgVars, callerErr, chunkErr, pos, cur, finalErr, closer, chanCloses,
                   fetch, uiVars, recvVars,
                   viewVars>>


(***************************************************************************)
(* StreamMarkdown, streamRaw, streamWithViewport and markdownModel.        *)
(***************************************************************************)
\* renderer.Render: the styling function, opaque; it never gives the empty text
glamourRender(text) == <<"[">> \o text \o <<"]">>
\* strings.TrimRightFunc(rendered, unicode.IsSpace) + "\n" in appendChunk
RenderedOf(text) == glamourRender(text) \o <<"\n">>
\* what streamWithViewport writes to w: rendered, with "\n" added when missing
FinalWrite(r) == IF r[Len(r)] = "\n" THEN r ELSE r \o <<"\n">>

\* mutant: the new text goes in front of the buffer
appendTextInFront(buf, text) == text \o buf

\* m.content.WriteString(text) in appendChunk
appendText(buf, text) == buf \o text

\* StreamMarkdown returns e: its deferred cancel() cancels chunkCtx, and the
\* orchestrator goes on.  f is the fragment-wait as the returning code leaves it.
SMReturn(e, f) ==
    /\ uiErr' = e
    /\ uiPc' = "exited"
    /\ mainPc' = "wait"
    /\ chunkErr' = Cancelled(chunkErr, ErrCanceled)
    /\ fetch' = IF chunkErr = NoErr THEN WakeFetch(f, ErrCanceled) ELSE f

\* mutant: Init asks for the first fragment at once
initFetchAtOnce == FetchIssued

\* the fetch Init leaves in flight: none, its batch holds the two loader
\* timers and the warm-up tick only
initFetch == FetchNone

\* StreamMarkdown up to the loop: streamRaw's first call of next, or
\* newTermRenderer (which may fail), newMarkdownModel with its loader, and
\* the start of the tea program, which draws its first frame on uiWriter and
\* runs Init: the loader step and the ellipsis tick are scheduled
UIStart ==
    /\ mainPc = "ui" /\ uiPc = "idle"
    /\ IF raw
       THEN /\ uiPc' = "raw"
            /\ fetch' = FetchIssued
            /\ UNCHANGED <<mainPc, chunkErr, uiErr, hist, loader, vp, timers>>
       ELSE \/ /\ uiPc' = "loop"
               /\ loader' = newLoader(now, PipeDelays, PipeGlyphs)
               /\ vp' = NoViewport
               /\ timers' = [step |-> TRUE, ellipsis |-> TRUE]
               /\ hist' = [hist EXCEPT !.uiFrames = 1]
               /\ fetch' = initFetch
               /\ UNCHANGED <<mainPc, chunkErr, uiErr>>
            \/ /\ SMReturn(Err("render", "init"), fetch)
               /\ hist' = [hist EXCEPT !.renderFailed = TRUE]
               /\ UNCHANGED <<loader, vp, timers>>
    /\ UNCHANGED <<cfgVars, callerErr, readerErr, result, pumpVars, closeVars, chanVars,
                   started, quitPending, keys, content, rendered, merr, sink, recvVars,
                   now>>

\* mutant: the raw loop writes the styled text
rawWriteStyled(out, text) == Append(out, RenderedOf(text))

\* io.WriteString(w, chunk.Text) in streamRaw
rawWrite(out, text) == Append(out, text)

\* streamRaw: what the loop does with the result of next
streamRaw ==
    /\ uiPc = "raw"
    /\ fetch.st \in {"chunk", "done"}
    /\ IF fetch.st = "done"
       THEN /\ SMReturn(fetch.err, FetchNone)
            /\ UNCHANGED <<sink, hist>>
       ELSE IF fetch.text = EmptyText
       THEN /\ fetch' = FetchIssued
            /\ UNCHANGED <<sink, hist, uiErr, uiPc, mainPc, chunkErr>>
       ELSE \/ /\ sink' = rawWrite(sink, fetch.text)
               /\ fetch' = FetchIssued
               /\ hist' = [hist EXCEPT !.appended = @ + 1]
               /\ UNCHANGED <<uiErr, uiPc, mainPc, chunkErr>>
            \/ /\ SMReturn(Err("write", "io"), FetchNone)
               /\ hist' = [hist EXCEPT !.writeFailed = TRUE]
               /\ UNCHANGED sink
    /\ UNCHANGED <<cfgVars, callerErr, readerErr, result, pumpVars, closeVars, chanVars,
                   started, quitPending, keys, content, rendered, merr, recvVars,
                   viewVars>>

\* Update(startStreamMsg): return m, m.next()
UpdateStartStream ==
    /\ uiPc = "loop" /\ ~started
    /\ started' = TRUE
    /\ fetch' = FetchIssued
    /\ UNCHANGED <<cfgVars, ctxVars, mainVars, pumpVars, closeVars, chanVars, uiPc,
                   quitPending, keys, content, rendered, merr, uiErr, sink, hist,
                   recvVars,
                   viewVars>>

\* mutant: appendChunk without its test for the empty text
isEmptyChunkNever(text) == FALSE

\* if text == "" { return nil } in appendChunk
isEmptyChunk(text) == text = EmptyText

\* mutant: the first text hides the loader at once
stopOnTextHides(l) == [l EXCEPT !.shouldStop = TRUE, !.active = FALSE]

\* if m.loader.active { m.loader.requestStop() } in appendChunk
stopOnText(l) == IF l.active THEN requestStop(l) ELSE l

\* markdownModel.View: which of the two frames is drawn
viewShows(l) == IF l.active THEN "loader" ELSE "viewport"

\* Update(chunkMsg): appendChunk (stop request to an active loader, append,
\* render, resize of the viewport), then m.next(), or m.err and tea.Quit when
\* the renderer fails
UpdateChunk ==
    /\ uiPc = "loop" /\ fetch.st = "chunk"
    /\ IF isEmptyChunk(fetch.text)
       THEN /\ fetch' = FetchIssued
            /\ UNCHANGED <<content, rendered, merr, quitPending, hist, loader, vp>>
       ELSE /\ loader' = stopOnText(loader)
            /\ content' = appendText(content, fetch.text)
            /\ \/ /\ rendered' = RenderedOf(content')
                  /\ vp' = resizeViewport(vp, rendered')
                  /\ fetch' = FetchIssued
                  /\ hist' = [hist EXCEPT !.appended = @ + 1]
                  /\ UNCHANGED <<merr, quitPending>>
               \/ /\ merr' = Err("render", "render")
                  /\ quitPending' = TRUE
                  /\ fetch' = FetchNone
                  /\ hist' = [hist EXCEPT !.appended = @ + 1, !.renderFailed = TRUE]
                  /\ UNCHANGED <<rendered, vp>>
    /\ UNCHANGED <<cfgVars, ctxVars, mainVars, pumpVars, closeVars, chanVars, uiPc,
                   started, keys, uiErr, sink, recvVars, now, timers>>

\* mutant: the done event's error is stored even when it is nil
doneErrAlways(carried, slot) == carried

\* if msg.err != nil { m.err = msg.err } in Update(doneMsg)
doneErr(carried, slot) == IF carried # NoErr THEN carried ELSE slot

\* mutant: the done event asks for a further fragment
UpdateDoneFetches ==
    /\ uiPc = "loop" /\ fetch.st = "done"
    /\ merr' = doneErr(fetch.err, merr)
    /\ quitPending' = TRUE
    /\ fetch' = FetchIssued
    /\ loader' = requestStop(loader)
    /\ hist' = [hist EXCEPT !.doneNil = @ \/ (fetch.err = NoErr)]
    /\ UNCHANGED <<cfgVars, ctxVars, mainVars, pumpVars, closeVars, chanVars, uiPc,
                   started, keys, content, rendered, uiErr, sink, recvVars, now, vp,
                   timers>>

\* Update(doneMsg)
UpdateDone ==
    /\ uiPc = "loop" /\ fetch.st = "done"
    /\ merr' = doneErr(fetch.err, merr)
    /\ quitPending' = TRUE
    /\ fetch' = FetchNone
    /\ loader' = requestStop(loader)
    /\ hist' = [hist EXCEPT !.doneNil = @ \/ (fetch.err = NoErr)]
    /\ UNCHANGED <<cfgVars, ctxVars, mainVars, pumpVars, closeVars, chanVars, uiPc,
                   started, keys, content, rendered, uiErr, sink, recvVars, now, vp,
                   timers>>

\* mutant: the wrapped callback leaves the pump's scope alone
cancelReaderSkipped(e) == e

\* cancelReader(), the first call of the wrapped callback
cancelReader(e) == Cancelled(e, ErrCanceled)

\* Update(KeyCtrlC), first part: m.cancel() and, in the wrapped callback,
\* cancelReader()
KeyCancel ==
    /\ uiPc = "loop"
    /\ keys' = keys + 1
    /\ chunkErr' = Cancelled(chunkErr, ErrCanceled)
    /\ fetch' = IF chunkErr = NoErr THEN WakeFetch(fetch, ErrCanceled) ELSE fetch
    /\ readerErr' = cancelReader(readerErr)
    /\ pumpPc' = IF readerErr = NoErr THEN WakePump(pumpPc) ELSE pumpPc
    /\ uiPc' = "key2"
    /\ hist' = [hist EXCEPT !.cancelEarly = @ \/ hist.appended = 0, !.interrupted = TRUE]
    /\ UNCHANGED <<cfgVars, callerErr, mainVars, pos, cur, finalErr, closeVars, chanVars,
                   started, quitPending, content, rendered, merr, uiErr, sink, recvVars,
                   viewVars>>

\* an interrupt key is delivered to Update
UpdateKeyCancel == keys < MaxKeys /\ KeyCancel

\* a further interrupt key, delivered while the tea.Quit of an earlier one is
\* still on its way to the event loop
UpdateKeyAgain ==
    /\ quitPending /\ keys >= MaxKeys /\ keys < MaxKeys + MaxMoreKeys
    /\ KeyCancel

\* Update(KeyCtrlC), the callback's close: closer.Close() under the mutex
\* (pump revision) or closeStreamFunc() (chat.go)
UpdateKeyClose ==
    /\ uiPc = "key2"
    /\ IF rev = "pump"
       THEN /\ closer' = deferredCloserClose(closer).d
            /\ uiPc' = IF deferredCloserClose(closer).run THEN "key2fn" ELSE "key3"
            /\ UNCHANGED <<onceDone, streamCloses>>
       ELSE /\ onceDone' = closeStreamDo(onceDone).done
            /\ streamCloses' = streamCloses + (IF closeStreamDo(onceDone).run THEN 1 ELSE 0)
            /\ uiPc' = "key3"
            /\ UNCHANGED closer
    /\ UNCHANGED <<cfgVars, ctxVars, mainVars, pumpVars, chanVars, fetch, started,
                   quitPending, keys, content, rendered, merr, uiErr, sink, hist,
                   recvVars,
                   viewVars>>

\* closer.Close(): fn() after the mutex is released, in the callback
UpdateKeyCloseFn ==
    /\ uiPc = "key2fn"
    /\ streamCloses' = streamCloses + 1
    /\ uiPc' = "key3"
    /\ UNCHANGED <<cfgVars, ctxVars, mainVars, pumpVars, closer, onceDone, chanVars,
                   fetch, started, quitPending, keys, content, rendered, merr, uiErr,
                   sink, hist, recvVars,
                   viewVars>>

\* mutant: the interrupt key leaves the model's error unset
InterruptErrNil == NoErr

\* the error Update(KeyCtrlC) stores in the model: context.Canceled
InterruptErr == ErrCanceled

\* Update(KeyCtrlC), the rest: userCancel(), m.err = context.Canceled, tea.Quit
UpdateKeyQuit ==
    /\ uiPc = "key3"
    /\ merr' = InterruptErr
    /\ quitPending' = TRUE
    /\ uiPc' = "loop"
    /\ hist' = [hist EXCEPT !.userCancels = @ + 1]
    /\ UNCHANGED <<cfgVars, ctxVars, mainVars, pumpVars, closeVars, chanVars, fetch,
                   started, keys, content, rendered, uiErr, sink, recvVars,
                   viewVars>>

\* mutant: the error recorded in the model is not looked at
ExitErrRunOnly(runErr, modelErr) == runErr

\* the error streamWithViewport returns before it writes anything: the error
\* of prog.Run(), else model.err
ExitErr(runErr, modelErr) == IF runErr # NoErr THEN runErr ELSE modelErr

\* streamWithViewport after prog.Run() has returned runErr; clearViewport
\* writes to the interactive display (uiWriter), the rendering goes to w
AfterRun(runErr) ==
    IF ExitErr(runErr, merr) # NoErr
    THEN SMReturn(ExitErr(runErr, merr), fetch) /\ UNCHANGED <<sink, hist>>
    ELSE IF rendered = EmptyText
    THEN /\ SMReturn(NoErr, fetch)
         /\ hist' = [hist EXCEPT !.cleared = 1]
         /\ UNCHANGED sink
    ELSE \/ /\ sink' = Append(sink, FinalWrite(rendered))
            /\ SMReturn(NoErr, fetch)
            /\ hist' = [hist EXCEPT !.cleared = 1]
         \/ /\ SMReturn(Err("write", "io"), fetch)
            /\ hist' = [hist EXCEPT !.writeFailed = TRUE, !.cleared = 1]
            /\ UNCHANGED sink

\* what prog.Run() returns when its context is cancelled: ErrProgramKilled,
\* which wraps the context's error in some versions of the library only
KilledErrs == {Err("killed", "none"), Err("killed", callerErr.cause)}

\* the tea program acts on tea.Quit; Run reports ErrProgramKilled when the
\* caller's context is cancelled by then
ProgramQuit ==
    /\ uiPc = "loop" /\ quitPending
    /\ \E e \in (IF callerErr = NoErr THEN {NoErr} ELSE KilledErrs) : AfterRun(e)
    /\ UNCHANGED <<cfgVars, callerErr, readerErr, result, pumpVars, closeVars, chanVars,
                   started, quitPending, keys, content, rendered, merr, recvVars,
                   viewVars>>

\* tea.WithContext(ctx): the program is killed when the caller's context ends
ProgramKilled ==
    /\ uiPc = "loop" /\ callerErr # NoErr
    /\ \E e \in KilledErrs : AfterRun(e)
    /\ UNCHANGED <<cfgVars, callerErr, readerErr, result, pumpVars, closeVars, chanVars,
                   started, quitPending, keys, content, rendered, merr, recvVars,
                   viewVars>>

(***************************************************************************)
(* The pipeline's specification.                                           *)
(***************************************************************************)
Pump ==
    \/ PumpOpen \/ PumpSet \/ PumpRecv \/ PumpSelect \/ PumpWoken
    \/ PumpDeferClose \/ PumpDeferCloseFn \/ PumpPublish \/ PumpCloseChan

Loop ==
    \/ UIStart \/ streamRaw \/ UpdateStartStream \/ UpdateChunk \/ UpdateDone
    \/ UpdateKeyCancel \/ UpdateKeyClose \/ UpdateKeyCloseFn \/ UpdateKeyQuit
    \/ ProgramQuit \/ ProgramKilled

Next ==
    \/ CallerCancel \/ Start \/ Return
    \/ Pump \/ FetchSelect \/ FetchClosed \/ Loop

Spec == Init /\ [][Next]_vars


(***************************************************************************)
(* The pipeline under fair scheduling.  Every goroutine that can take a    *)
(* step eventually takes it.  An open and a read of the response body are  *)
(* network calls: they are sure to return only once their request's        *)
(* context is cancelled.  The inputs are those of at most MaxLiveLines.    *)
(***************************************************************************)
InitLive ==
    /\ Init
    /\ Len(input.lines) <= MaxLiveLines

Fairness ==
    /\ WF_vars(PumpOpen /\ readerErr # NoErr)
    /\ WF_vars(PumpRecv /\ readerErr # NoErr)
    /\ WF_vars(PumpSet) /\ WF_vars(PumpSelect) /\ WF_vars(PumpWoken)
    /\ WF_vars(PumpDeferClose) /\ WF_vars(PumpDeferCloseFn)
    /\ WF_vars(PumpPublish) /\ WF_vars(PumpCloseChan)
    /\ WF_vars(FetchSelect) /\ WF_vars(FetchClosed)

SpecLive == InitLive /\ [][Next]_vars /\ Fairness

\* the same with the pump goroutine alone scheduled fairly: nothing is
\* assumed of the consumer, whose fragment-waits may never run again
PumpFairness ==
    /\ WF_vars(PumpOpen /\ readerErr # NoErr)
    /\ WF_vars(PumpRecv /\ readerErr # NoErr)
    /\ WF_vars(PumpSet) /\ WF_vars(PumpSelect) /\ WF_vars(PumpWoken)
    /\ WF_vars(PumpDeferClose) /\ WF_vars(PumpDeferCloseFn)
    /\ WF_vars(PumpPublish) /\ WF_vars(PumpCloseChan)

SpecPump == InitLive /\ [][Next]_vars /\ PumpFairness

(***************************************************************************)
(* The same, with the orchestrator's goroutine scheduled too: once          *)
(* StreamMarkdown has returned, the orchestrator takes its remaining step   *)
(* whenever that step can be taken, and the server answers every request:  *)
(* an open and a read of the response body return, cancelled or not.  The  *)
(* caller is never bound to cancel, nor the user to press a key.  The       *)
(* streams are those of TermLines: none, one or two fragments.             *)
(***************************************************************************)
TermLines == {<< >>, <<LineHi>>, <<LineHi, LineThere>>}

InitTerm ==
    /\ Init
    /\ input.lines \in TermLines

SpecTerm ==
    /\ InitTerm /\ [][Next]_vars
    /\ Fairness /\ WF_vars(PumpOpen) /\ WF_vars(PumpRecv) /\ WF_vars(Return)

(***************************************************************************)
(* The pipeline with repeated interrupt keys: the terminal delivers more   *)
(* interrupt keys before the program has acted on the first tea.Quit.      *)
(***************************************************************************)
NextKeys == Next \/ UpdateKeyAgain

SpecKeys == InitLive /\ [][NextKeys]_vars

(***************************************************************************)
(* markdown.StreamMarkdown on its own: a caller hands it a fragment source *)
(* next of its own, which may give any text, the empty one too, io.EOF or  *)
(* an error, whether or not its context is cancelled.  The interrupt       *)
(* callback is the one of chat.go.                                         *)
(***************************************************************************)
\* a text that ends its line: the rendering of n such fragments has n + 1 lines
TextRow == <<"H", "\n">>
FeedTexts == {EmptyText, TextRow}
FeedErr == Err("source", "io")

\* the caller calls StreamMarkdown; no pump is started
FeedStart ==
    /\ mainPc = "start" /\ rev = "once"
    /\ mainPc' = "ui"
    /\ UNCHANGED <<cfgVars, ctxVars, result, pumpVars, closeVars, chanVars, fetch, uiVars,
                   hist, recvVars, viewVars>>

\* next(ctx) returns
FeedNext ==
    /\ pumpPc = "idle" /\ uiPc \in {"loop", "raw"}
    /\ fetch.st = "issued"
    /\ \/ \E t \in FeedTexts :
            /\ hist.received < MaxFeed
            /\ fetch' = FetchChunk(t)
            /\ hist' = [hist EXCEPT !.received = @ + 1]
       \/ \E e \in {NoErr, FeedErr} \cup (IF chunkErr = NoErr THEN {} ELSE {chunkErr}) :
            /\ fetch' = FetchDone(e)
            /\ UNCHANGED hist
    /\ UNCHANGED <<cfgVars, ctxVars, mainVars, pumpVars, closeVars, chanVars, uiVars,
                   recvVars, viewVars>>

\* the pipeline with repeated interrupt keys, or StreamMarkdown on its own; the
\* pipeline's streams have records without choices and with an empty delta,
\* none has a sentinel line, and two end in a line without its newline
AnyLines ==
    {<< >>, <<LineHi>>, <<LineEmptyDelta>>, <<LineNoChoices>>,
     <<LineEmptyDelta, LineHi>>, <<LineNoChoices, LineHi>>}

InitAny ==
    /\ rev \in {"pump", "once"}
    /\ raw \in BOOLEAN
    /\ input \in {[lines |-> l, term |-> TRUE] : l \in AnyLines}
                 \cup {[lines |-> l, term |-> FALSE] : l \in {<<LineHi>>, <<LineHi, LineThere>>}}
    /\ PipeInit
    /\ ViewInit
    /\ rPos = 1 /\ rOut = << >> /\ rEnd = "idle"

NextAny == NextKeys \/ FeedStart \/ FeedNext

SpecAny == InitAny /\ [][NextAny]_vars


(***************************************************************************)
(* The loader's specification: a loader built by newLoader at time 0, with *)
(* every draw of its random delays and runes, on which requestStop,        *)
(* update, advanceEllipsis and View are called in any order while time     *)
(* passes.  The pipeline's variables stay as Init leaves them.             *)
(***************************************************************************)
\* the instants the clock takes: around a loader step and around minVisible
Instants == {0, 45, minVisible - 1, minVisible, minVisible + 45}

InitLoader ==
    /\ rev = "pump" /\ raw = FALSE /\ input = [lines |-> << >>, term |-> TRUE]
    /\ PipeInit
    /\ now = 0 /\ vp = NoViewport /\ timers = NoTimers
    /\ loader \in {newLoader(0, d, g) : d \in DelayDraws, g \in GlyphDraws}
    /\ rPos = 1 /\ rOut = << >> /\ rEnd = "idle"

idleVars == <<cfgVars, ctxVars, mainVars, pumpVars, closeVars, chanVars, fetch, uiVars,
              recvVars, vp, timers>>

\* time passes
Tick ==
    /\ \E t \in Instants : t > now /\ now' = t
    /\ UNCHANGED <<idleVars, loader, hist>>

\* l.update()
LoaderUpdate ==
    /\ \E g \in GlyphDraws : loader' = update(loader, now, g)
    /\ hist' = [hist EXCEPT !.updatedAfterStop = @ \/ loader.shouldStop]
    /\ UNCHANGED <<idleVars, now>>

\* l.requestStop()
LoaderRequestStop ==
    /\ loader' = requestStop(loader)
    /\ hist' = [hist EXCEPT !.stopCalls = IF @ < 2 THEN @ + 1 ELSE @]
    /\ UNCHANGED <<idleVars, now>>

\* l.advanceEllipsis()
LoaderAdvanceEllipsis ==
    /\ loader' = advanceEllipsis(loader)
    /\ UNCHANGED <<idleVars, now, hist>>

\* l.View()
LoaderView ==
    /\ loader' = loaderView(loader).l
    /\ UNCHANGED <<idleVars, now, hist>>

NextLoader ==
    \/ Tick \/ LoaderUpdate \/ LoaderRequestStop \/ LoaderAdvanceEllipsis \/ LoaderView

SpecLoader == InitLoader /\ [][NextLoader]_vars

(***************************************************************************)
(* The cells' specification: a loader of part_005 built at time 0, with    *)
(* every draw of its delays and lifetimes, which is updated while time     *)
(* passes.                                                                 *)
(***************************************************************************)
InitCell ==
    /\ rev = "pump" /\ raw = FALSE /\ input = [lines |-> << >>, term |-> TRUE]
    /\ PipeInit
    /\ now = 0 /\ vp = NoViewport /\ timers = NoTimers
    /\ loader \in {newLoaderLabelled(0, d, dl, PipeGlyphs, gl) :
                       d \in DelayDraws, dl \in LabelDraws, gl \in LabelGlyphDraws}
    /\ rPos = 1 /\ rOut = << >> /\ rEnd = "idle"

\* l.update()
CellUpdate ==
    /\ \E g \in GlyphDraws, gl \in LabelGlyphDraws :
           loader' = updateLabelled(loader, now, g, gl)
    /\ UNCHANGED <<idleVars, now, hist>>

NextCell == Tick \/ CellUpdate

SpecCell == InitCell /\ [][NextCell]_vars

(***************************************************************************)
(* The pipeline with the timers and the terminal of the render loop: time  *)
(* passes, the loader's step and ellipsis ticks are delivered and          *)
(* rescheduled, and the terminal reports its size.  The viewport mode is   *)
(* on, the caller never cancels, and the streams are those of ViewLines.   *)
(***************************************************************************)
ViewLines == {<< >>, <<LineHi>>}
\* the sizes a tea.WindowSizeMsg reports: shorter and taller than the text
WindowSizes == {[Width |-> 4, Height |-> 1], [Width |-> 4, Height |-> 3]}

InitView ==
    /\ Init
    /\ ~raw
    /\ input.lines \in ViewLines

\* mutant: the loader tick is scheduled whatever the loader's state
loaderStepCmdAlways(l) == TRUE

\* loaderStepCmd: a tick is scheduled when the loader is active, none otherwise
loaderStepCmd(l) == l.active

\* Update(loaderStepMsg): update and loaderStepCmd while the loader is active
UpdateLoaderStep ==
    /\ uiPc = "loop" /\ timers.step
    /\ loader' = IF loader.active THEN update(loader, now, PipeGlyphs) ELSE loader
    /\ timers' = [timers EXCEPT !.step = loader.active /\ loaderStepCmd(loader')]
    /\ hist' = [hist EXCEPT !.updatedAfterStop = @ \/ (loader.active /\ loader.shouldStop)]
    /\ UNCHANGED <<cfgVars, ctxVars, mainVars, pumpVars, closeVars, chanVars, fetch,
                   uiVars, recvVars, now, vp>>

\* Update(ellipsisTickMsg): advanceEllipsis and ellipsisTickCmd while the
\* loader is active
UpdateEllipsisTick ==
    /\ uiPc = "loop" /\ timers.ellipsis
    /\ loader' = IF loader.active THEN advanceEllipsis(loader) ELSE loader
    /\ timers' = [timers EXCEPT !.ellipsis = loader.active]
    /\ UNCHANGED <<cfgVars, ctxVars, mainVars, pumpVars, closeVars, chanVars, fetch,
                   uiVars, recvVars, now, vp, hist>>

\* Update(tea.WindowSizeMsg)
UpdateWindowSize ==
    /\ uiPc = "loop"
    /\ \E sz \in WindowSizes :
         /\ [Width |-> vp.windowWidth, Height |-> vp.windowHeight] # sz
         /\ vp' = resizeViewport([vp EXCEPT !.windowWidth = sz.Width,
                                            !.windowHeight = sz.Height,
                                            !.Width = sz.Width], rendered)
    /\ UNCHANGED <<cfgVars, ctxVars, mainVars, pumpVars, closeVars, chanVars, fetch,
                   uiVars, recvVars, now, loader, timers, hist>>

\* the events of the render loop that come from its timers and its terminal
Timers == UpdateLoaderStep \/ UpdateEllipsisTick \/ UpdateWindowSize

LoopView ==
    \/ UIStart \/ UpdateStartStream \/ UpdateChunk \/ UpdateDone
    \/ UpdateKeyCancel \/ UpdateKeyClose \/ UpdateKeyCloseFn \/ UpdateKeyQuit
    \/ ProgramQuit

NextView ==
    \/ Start \/ Return
    \/ Pump \/ FetchSelect \/ FetchClosed \/ LoopView
    \/ Tick \/ Timers

SpecView == InitView /\ [][NextView]_vars

\* StreamMarkdown on its own, with the timers and the terminal of its loop
InitFeed ==
    /\ Init
    /\ rev = "once" /\ input.lines = << >>

NextFeed ==
    \/ FeedStart \/ FeedNext \/ CallerCancel
    \/ UIStart \/ streamRaw \/ UpdateStartStream \/ UpdateChunk \/ UpdateDone
    \/ UpdateKeyCancel \/ UpdateKeyClose \/ UpdateKeyQuit
    \/ ProgramQuit \/ ProgramKilled
    \/ Tick \/ Timers

SpecFeed == InitFeed /\ [][NextFeed]_vars

(***************************************************************************)
(* The parser's specification: one goroutine calls Recv on an input until  *)
(* it reports the end or an error, keeping the non-empty delta texts as    *)
(* the pump does.  The pipeline's variables stay as Init leaves them.      *)
(***************************************************************************)
RecvLines ==
    {LineHi, LineThere, LineEmptyDelta, LineNoChoices, LineTwoChoices, LineBad,
     LineDone, LineBlank, LineSpaces, LineComment, LineCRLF, LineIndented,
     LineDataOnly}

RecvInputs ==
    {[lines |-> body \o tail, term |-> t] :
        body \in SeqsUpTo(RecvLines, MaxRecvLines),
        tail \in {<< >>, <<LineDone>>},
        t \in BOOLEAN}

InitRecv ==
    /\ rev = "pump" /\ raw = FALSE
    /\ input \in RecvInputs
    /\ PipeInit
    /\ ViewInit
    /\ rPos = 1 /\ rOut = << >> /\ rEnd = "run"

pipeVars == <<cfgVars, ctxVars, mainVars, pumpVars, closeVars, chanVars, fetch, uiVars,
              hist, viewVars>>

\* Recv returned a response with a non-empty first delta
RecvYield ==
    /\ rEnd = "run"
    /\ Recv(input, rPos).kind = "ok"
    /\ extractDeltaText(Recv(input, rPos).choices) # EmptyText
    /\ rOut' = Append(rOut, extractDeltaText(Recv(input, rPos).choices))
    /\ rPos' = Recv(input, rPos).pos
    /\ UNCHANGED <<rEnd, pipeVars>>

\* Recv returned a response without choices or with an empty first delta
RecvSkip ==
    /\ rEnd = "run"
    /\ Recv(input, rPos).kind = "ok"
    /\ extractDeltaText(Recv(input, rPos).choices) = EmptyText
    /\ rPos' = Recv(input, rPos).pos
    /\ UNCHANGED <<rOut, rEnd, pipeVars>>

\* Recv returned io.EOF
RecvEof ==
    /\ rEnd = "run"
    /\ Recv(input, rPos).kind = "eof"
    /\ rEnd' = "eof"
    /\ rPos' = Recv(input, rPos).pos
    /\ UNCHANGED <<rOut, pipeVars>>

\* Recv returned a decode error
RecvDecodeErr ==
    /\ rEnd = "run"
    /\ Recv(input, rPos).kind = "decode"
    /\ rEnd' = "decode"
    /\ rPos' = Recv(input, rPos).pos
    /\ UNCHANGED <<rOut, pipeVars>>

NextRecv == RecvYield \/ RecvSkip \/ RecvEof \/ RecvDecodeErr

SpecRecv == InitRecv /\ [][NextRecv]_vars

(***************************************************************************)
(* Auxiliary definitions of the properties.                                *)
(***************************************************************************)
RECURSIVE Flatten(_)
Flatten(ss) == IF ss = << >> THEN << >> ELSE Head(ss) \o Flatten(Tail(ss))

\* What the Fragment Source produces on input in, read to its end with no
\* transport error: the non-empty delta texts, and how the stream ends.
RECURSIVE FragmentsFrom(_, _)
FragmentsFrom(in, p) ==
    LET r == Recv(in, p)
        text == extractDeltaText(r.choices)
        rest == FragmentsFrom(in, r.pos)
    IN  IF r.kind # "ok" THEN [out |-> << >>, end |-> r.kind]
        ELSE IF text = EmptyText THEN rest
        ELSE [out |-> <<text>> \o rest.out, end |-> rest.end]
Fragments(in) == FragmentsFrom(in, 1)

\* the concatenation, in source order, of the Fragment Source's non-empty deltas
FullText(in) == Flatten(Fragments(in).out)

\* the text the render loop has accumulated: m.content, or in raw mode what
\* it has written to the sink
Accumulated == IF raw THEN Flatten(sink) ELSE content

\* the pump ended on a graceful stream end ...
PumpEndedGracefully == pumpPc = "exit" /\ hist.published = 1 /\ hist.pubErr = NoErr
\* ... and so did the loop: it saw the end of the stream and recorded no error
LoopEndedGracefully ==
    /\ uiPc = "exited"
    /\ IF raw THEN uiErr = NoErr ELSE hist.doneNil /\ merr = NoErr

\* The number of writes w has received.  uiWriter is opts.UIWriter, or w
\* itself when opts.UIWriter is nil: then the frames of the tea program and
\* the escape sequences of clearViewport go to w too.
WritesToW(uiWriterSet) ==
    Len(sink) + (IF uiWriterSet THEN 0 ELSE hist.uiFrames + hist.cleared)

\* what the final write consists of: the styled text and one newline
StyledWithNewline(text) == <<"[">> \o text \o <<"]", "\n">>

(***************************************************************************)
(* Properties.                                                             *)
(***************************************************************************)

\* C1 -- Close-once.  In every run in which the stream was opened, whatever
\* the interleaving of graceful end, transport or decode error, caller
\* cancellation and interrupt key: stream.Close has never been called more
\* than once, and has been called exactly once when
\* CreateChatCompletionStreamWithMarkdown has returned.
C1_CloseOnce ==
    /\ streamCloses <= 1
    /\ (mainPc = "returned" /\ hist.opened) => streamCloses = 1

\* a run of the pump revision that returned after an interrupt key, with a
\* fragment delivered before it and the stream closed once
C1_Witness ==
    /\ rev = "pump" /\ mainPc = "returned" /\ hist.opened /\ hist.interrupted
    /\ hist.received > 0 /\ streamCloses = 1 /\ pumpPc = "exit"

\* C2 -- Ordering.  In every reachable state the text accumulated by the
\* render loop is a prefix of the concatenation, in source order, of the
\* non-empty deltas of the Fragment Source; when pump and loop have ended on a
\* graceful stream end it is the whole concatenation.
C2_Ordering ==
    /\ IsPrefix(Accumulated, FullText(input))
    /\ (PumpEndedGracefully /\ LoopEndedGracefully) => Accumulated = FullText(input)

\* the viewport loop ended gracefully with "Hi" and then "t" accumulated
C2_Witness ==
    /\ ~raw /\ PumpEndedGracefully /\ LoopEndedGracefully
    /\ content = TextHi \o TextThere /\ hist.appended = 2

\* C4 -- Backpressure.  The non-empty fragments the pump has obtained from the
\* Fragment Source exceed those a consumer has received by at most one, and
\* the pump is about to call Recv only when every fragment it obtained has
\* been received: with a consumer that does not read, it never calls Recv
\* again after its first non-empty fragment.
C4_Backpressure ==
    /\ hist.obtained - hist.received \in {0, 1}
    /\ pumpPc = "recv" => hist.obtained = hist.received

\* the pump holds its second fragment, blocked, while nobody waits for it
C4_Witness ==
    /\ pumpPc = "sendParked" /\ hist.obtained = 2 /\ hist.received = 1
    /\ fetch.st \in {"none", "chunk"}

\* C5 -- Pump termination.  On every path on which the pump goroutine ends
\* (open failure, graceful end, stream error, cancellation) it has published
\* exactly one terminal outcome and closed the fragment queue exactly once;
\* the publication finds the result slot free (it cannot block); and once
\* the queue is closed the pump is past every send.
C5_PumpTermination ==
    /\ hist.published <= 1 /\ chanCloses <= 1
    /\ pumpPc = "dpublish" => Len(doneSlot) < doneChCap
    /\ pumpPc = "dclosech" => hist.published = 1 /\ chanCloses = 0
    /\ pumpPc = "exit" => hist.published = 1 /\ chanCloses = 1
    /\ chanCloses > 0 => pumpPc = "exit"
    /\ pumpPc \in {"idle", "open", "set", "recv", "send", "sendParked", "sendWoken",
                   "dclose", "dclosefn", "dpublish"} => hist.published = 0

\* the pump ended on the cancellation path while blocked in its send
C5_Witness ==
    /\ pumpPc = "exit" /\ hist.pubErr = ErrCanceled /\ hist.obtained > hist.received
    /\ hist.published = 1 /\ chanCloses = 1


\* Reading of an input taken by the statement of C3: a line is a data line
\* when its text starts with "data: ", and the rest of it is its payload.
StartsWithData(l) == HasPrefix(l, DataPrefix)
RawPayload(l) == SubSeq(l, Len(DataPrefix) + 1, Len(l))
\* Reading of an input after surrounding whitespace is trimmed from each line
IsDataLine(l) == HasPrefix(TrimSpace(l), DataPrefix)
Payload(l) == SubSeq(TrimSpace(l), Len(DataPrefix) + 1, Len(TrimSpace(l)))
IsNoiseLine(l) == ~IsDataLine(l)

\* first-choice delta content of a decodable payload
FirstDelta(payload) ==
    IF Len(Unmarshal(payload).choices) = 0 THEN EmptyText
    ELSE Unmarshal(payload).choices[1]

\* the input ends with the line "data: [DONE]" and every other line that
\* starts with "data: " decodes
WellFormedAsWritten(in) ==
    /\ in.term /\ Len(in.lines) > 0
    /\ in.lines[Len(in.lines)] = LineDone
    /\ \A i \in 1 .. Len(in.lines) - 1 :
           StartsWithData(in.lines[i]) => Unmarshal(RawPayload(in.lines[i])).ok

\* the same, each line read after trimming
WellFormed(in) ==
    /\ in.term /\ Len(in.lines) > 0
    /\ TrimSpace(in.lines[Len(in.lines)]) = LineDone
    /\ \A i \in 1 .. Len(in.lines) - 1 :
           IsDataLine(in.lines[i]) => Unmarshal(Payload(in.lines[i])).ok

\* the non-empty first-choice deltas of the data lines before the last line
NonEmptyText(t) == t # EmptyText
DeltasUpTo(lines, n, isData(_), payload(_)) ==
    SelectSeq([i \in 1 .. n |->
                  IF isData(lines[i]) THEN FirstDelta(payload(lines[i])) ELSE EmptyText],
              NonEmptyText)
ExpectedAsWritten(in) ==
    DeltasUpTo(in.lines, Len(in.lines) - 1, StartsWithData, RawPayload)
Expected(in) == DeltasUpTo(in.lines, Len(in.lines) - 1, IsDataLine, Payload)

\* the input without its noise lines
StripNoise(in) == [in EXCEPT !.lines = SelectSeq(in.lines, IsDataLine)]

\* C3 as written -- for every input that ends with the line "data: [DONE]"
\* and whose other lines starting with "data: " all decode, the Recv calls
\* yield the non-empty first-choice deltas of the lines starting with
\* "data: ", in order, and then the stream end, whatever blank lines and
\* lines not starting with "data: " stand in between.
C3_AsWritten ==
    (rEnd \in {"eof", "decode"} /\ WellFormedAsWritten(input)) =>
        /\ rEnd = "eof"
        /\ rOut = ExpectedAsWritten(input)
        /\ rPos = Len(input.lines) + 1

\* C3 -- Recv trims surrounding whitespace from a line before it looks for
\* "data: ".  For every input whose last line is "data: [DONE]" after
\* trimming and whose other lines that start with "data: " after trimming all
\* decode, the Recv calls yield exactly the non-empty first-choice deltas of
\* those lines, in order, and then the stream end; the result is that of the
\* input with every line removed that is empty or does not start with
\* "data: " after trimming.
C3_RecvFragments ==
    (rEnd \in {"eof", "decode"} /\ WellFormed(input)) =>
        /\ rEnd = "eof"
        /\ rOut = Expected(input)
        /\ rPos = Len(input.lines) + 1
        /\ Fragments(StripNoise(input)) = [out |-> rOut, end |-> "eof"]

\* "Hi" and "t" were yielded from an input with noise between its data lines
C3_Witness ==
    /\ rEnd = "eof" /\ WellFormed(input)
    /\ rOut = <<TextHi, TextThere>>
    /\ \E i \in 1 .. Len(input.lines) : IsNoiseLine(input.lines[i])
    /\ Len(StripNoise(input).lines) < Len(input.lines)


\* the run's cancellation has been triggered: by the caller or by the interrupt key
Triggered == callerErr # NoErr \/ hist.interrupted
PumpRunning == pumpPc \notin {"idle", "exit"}
FetchPending == fetch.st \in {"issued", "parked", "sawClosed"}

\* C6 -- Cancellation unblocks.  Once the run's cancellation is triggered
\* (caller cancellation or interrupt key), under fair scheduling a running
\* pump eventually publishes its outcome and closes the fragment queue, and a
\* fragment-wait in flight eventually returns; the step that triggers the
\* cancellation resolves a fragment-wait blocked in its select to a done
\* event carrying the context's error, and a pump blocked in its send to the
\* cancellation branch.
C6_CancelUnblocks ==
    /\ (Triggered /\ PumpRunning) ~>
           (pumpPc = "exit" /\ hist.published = 1 /\ chanCloses = 1)
    /\ (Triggered /\ FetchPending) ~> ~FetchPending
    /\ [][(~Triggered /\ Triggered') =>
             /\ fetch.st = "parked" => (fetch'.st = "done" /\ fetch'.err # NoErr)
             /\ pumpPc = "sendParked" => pumpPc' = "sendWoken"]_vars
    /\ [](pumpPc = "sendWoken" => readerErr # NoErr)

\* after an interrupt key the pump, which was blocked in its send, has ended
\* with the cancellation as its outcome, and the loop's wait returned done
C6_Witness ==
    /\ hist.interrupted /\ pumpPc = "exit" /\ hist.pubErr = ErrCanceled
    /\ hist.obtained > hist.received
    /\ fetch = FetchDone(ErrCanceled)

\* an error that tells of a cancellation: a context's error, the killed
\* program's error, or an error that wraps context.Canceled
IsCancellationOutcome(e) == e.kind \in {"ctx", "killed"} \/ e.cause = "canceled"

\* C7 as written -- if cancellation (interrupt key or caller cancellation)
\* fires before any fragment has been delivered to the render loop, the call
\* returns a cancellation outcome, not a transport or decode error and not
\* success, and nothing is written to the sink w.
C7_AsWritten ==
    (mainPc = "returned" /\ hist.cancelEarly) =>
        /\ IsCancellationOutcome(result)
        /\ result.cause \notin {"transport", "decode"}
        /\ sink = << >>

\* C7 -- in viewport mode, if cancellation (interrupt key or caller
\* cancellation) fires before any fragment has been delivered to the render
\* loop, the call does not succeed and no rendering is written to the sink w
\* (nothing at all when opts.UIWriter is set); the
\* error returned is a cancellation outcome unless the open failed, the pump
\* published an error of its own (a transport or decode error among them) or
\* the renderer failed, and then it may be that error.
C7_EarlyCancel ==
    (~raw /\ mainPc = "returned" /\ hist.cancelEarly) =>
        /\ result # NoErr
        /\ sink = << >> /\ WritesToW(TRUE) = 0
        /\ \/ IsCancellationOutcome(result)
           \/ hist.openFailed /\ result.kind = "open"
           \/ hist.published = 1 /\ result = hist.pubErr
           \/ hist.renderFailed /\ result.kind = "render"

\* an interrupt key before any fragment event, in a run of the pump revision
\* that returned the loop's context.Canceled
C7_Witness ==
    /\ rev = "pump" /\ ~raw /\ mainPc = "returned" /\ hist.cancelEarly
    /\ hist.interrupted /\ hist.appended = 0
    /\ result = ErrCanceled /\ sink = << >>

\* line i of the input is a "data: " line whose payload is neither the
\* sentinel nor decodable, and no sentinel line stands before it
IsSentinelLine(l) == IsDataLine(l) /\ Payload(l) = Sentinel
IsJsonValue(data) == LET v == TrimSpace(data) IN Len(v) = 1 /\ v[1].t = "json"
IsBadLine(l) == IsDataLine(l) /\ Payload(l) # Sentinel /\ ~IsJsonValue(Payload(l))
BadBeforeSentinel(in, i) ==
    /\ i \in 1 .. Len(in.lines)
    /\ IsBadLine(in.lines[i])
    /\ \A j \in 1 .. i - 1 : ~IsSentinelLine(in.lines[j]) /\ ~IsBadLine(in.lines[j])

PumpPastLoop == pumpPc \in {"dclose", "dclosefn", "dpublish", "dclosech", "exit"}

C9_Resolution ==
    (rev = "pump" /\ mainPc = "returned") =>
        LET L == uiErr
            P == hist.pubErr
        IN  /\ hist.published = 1 /\ hist.pumpErr = P
            /\ (IsCanceled(L) /\ P # NoErr) => result = P
            /\ (~(IsCanceled(L) /\ P # NoErr) /\ L # NoErr) => result = L
            /\ L = NoErr => result = P
            /\ result = NoErr <=> (L = NoErr /\ P = NoErr)

\* the loop reported Canceled and the pump a decode error: the pump's wins
C9_Witness ==
    /\ rev = "pump" /\ mainPc = "returned"
    /\ uiErr = ErrCanceled /\ hist.pubErr = Err("stream", "decode")
    /\ result = Err("stream", "decode")

OnlyStreamFailed ==
    /\ hist.recvFailed
    /\ callerErr = NoErr /\ ~hist.interrupted
    /\ ~hist.renderFailed /\ ~hist.writeFailed

\* C11 -- Partial output is kept.  In viewport mode, when Recv fails with a
\* transport or decode error after the render loop has accumulated at least
\* one non-empty fragment (and nothing else fails or cancels), the call
\* returns an error and the rendering of the accumulated text has been written
\* to the sink w.
C11_PartialOutputKept ==
    (~raw /\ mainPc = "returned" /\ OnlyStreamFailed /\ hist.appended >= 1) =>
        /\ result # NoErr
        /\ sink = <<FinalWrite(RenderedOf(content))>>

\* C11 restricted to the pump revision, where it holds
C11_PumpRevision == rev = "pump" => C11_PartialOutputKept

\* "Hi" was accumulated and the next line did not decode: the pump revision
\* wrote the rendering of "Hi" and returned the decode error
C11_Witness ==
    /\ rev = "pump" /\ ~raw /\ mainPc = "returned" /\ OnlyStreamFailed
    /\ content = TextHi /\ result = Err("stream", "decode")
    /\ sink = <<FinalWrite(RenderedOf(TextHi))>>


\* C12 -- Cancel at most once.  In every run, whatever events are delivered
\* to the render loop, several interrupt keys before the loop exits among
\* them, the caller's Cancel callback has been called at most once.
C12_CancelAtMostOnce == hist.userCancels <= 1


\* C13 as written -- in non-raw mode, whatever the options, w is written at
\* most once, only after the render loop has exited and only if the loop
\* recorded no error.
C13_AsWritten ==
    ~raw => \A uiWriterSet \in BOOLEAN :
                /\ WritesToW(uiWriterSet) <= 1
                /\ WritesToW(uiWriterSet) > 0 => (uiPc = "exited" /\ merr = NoErr)

\* C13 -- in non-raw mode with opts.UIWriter set, w is written at most once,
\* only after the render loop has exited and only if the loop recorded no
\* error; what is written is the styled rendering of the entire accumulated
\* text ended by a newline; if the loop recorded an error, or no fragment was
\* accumulated, nothing is written to w.
C13_FinalWrite ==
    ~raw =>
        /\ WritesToW(TRUE) <= 1
        /\ WritesToW(TRUE) > 0 =>
               /\ uiPc = "exited" /\ merr = NoErr
               /\ content # EmptyText
               /\ sink = <<StyledWithNewline(content)>>
        /\ (merr # NoErr \/ content = EmptyText) => sink = << >>

\* the loop ended without error having accumulated "Hi" and "t": one write
C13_Witness ==
    /\ ~raw /\ mainPc = "returned" /\ merr = NoErr /\ uiErr = NoErr
    /\ content = TextHi \o TextThere
    /\ sink = <<StyledWithNewline(TextHi \o TextThere)>>
    /\ hist.uiFrames = 1 /\ hist.cleared = 1


\* errors a fragment-wait can return: the context's error, or (chat.go) the
\* stream error read from streamErr
IsFetchError(e) == e.kind \in {"ctx", "stream"}

\* C14 -- Raw mode.  At every point of a raw run what has been written to w
\* is, write by write, the texts of the fragments the loop has consumed, in
\* arrival order, unstyled; no tea program draws and nothing is rendered or
\* cleared; the loop returns nil only on the end of the stream, with every
\* fragment it received written; otherwise it returns the fetch error, or
\* the write error with the fragment whose write failed left unwritten, and
\* nothing is written after the loop has returned.
C14_RawMode ==
    raw =>
        /\ hist.appended <= Len(Fragments(input).out)
        /\ sink = SubSeq(Fragments(input).out, 1, hist.appended)
        /\ hist.received - hist.appended \in {0, 1}
        /\ hist.uiFrames = 0 /\ hist.cleared = 0
        /\ content = EmptyText /\ rendered = EmptyText /\ ~hist.renderFailed
        /\ uiPc = "exited" =>
               \/ /\ uiErr = NoErr /\ chanCloses = 1 /\ ~hist.writeFailed
                  /\ hist.appended = hist.received
               \/ /\ IsFetchError(uiErr) /\ ~hist.writeFailed
                  /\ hist.appended = hist.received
               \/ /\ uiErr = Err("write", "io") /\ hist.writeFailed
                  /\ hist.appended = hist.received - 1

\* a raw run wrote "Hi" and then failed to write "t"
C14_Witness ==
    /\ raw /\ uiPc = "exited" /\ uiErr = Err("write", "io")
    /\ sink = <<TextHi>> /\ hist.received = 2


\* C15 -- Loader minimum visibility.  Whenever requestStop is called, at or
\* after the loader's creation, and whatever updates (loader ticks) run, the
\* loader is active in every state whose time is less than displayStart +
\* minVisible.
C15_MinVisible ==
    (loader.made /\ now < loader.displayStart + minVisible) => loader.active

\* a stop was requested and an update ran after it, one millisecond before
\* minVisible has elapsed: the loader is still active
C15_Witness ==
    /\ loader.made /\ loader.shouldStop /\ hist.updatedAfterStop
    /\ now = loader.displayStart + minVisible - 1
    /\ loader.active

\* C16 -- requestStop is idempotent.  In every loader state, a second
\* requestStop gives the state the first one gave, and requestStop changes
\* nothing but the stop flag: not the active flag, not the cells, not the
\* ellipsis index.
C16_StopIdempotent ==
    loader.made =>
        LET once == requestStop(loader)
        IN  /\ requestStop(once) = once
            /\ once = [loader EXCEPT !.shouldStop = TRUE]
            /\ once.active = loader.active
            /\ once.cyclingChars = loader.cyclingChars
            /\ once.ellipsisIdx = loader.ellipsisIdx
            /\ hist.stopCalls >= 1 => (loader.shouldStop /\ once = loader)

\* requestStop was called more than once on an active loader whose ellipsis
\* had advanced
C16_Witness ==
    /\ loader.made /\ hist.stopCalls = 2 /\ loader.shouldStop
    /\ loader.active /\ loader.ellipsisIdx = 2


(***************************************************************************)
(* C17.  Every action of the pump worker leaves the render model           *)
(* (accumulated text, rendered text, viewport dimensions, loader state,    *)
(* error slot) unchanged, and so does the fragment-wait, the orchestrator  *)
(* and the passing of time; the render model changes only in a step in     *)
(* which the render loop builds the model or handles an event; and of the  *)
(* variables another goroutine reads a pump action changes only the        *)
(* fragment handed over on the queue, the closing of the queue, the        *)
(* outcome slot and the stream's close.                                    *)
(***************************************************************************)
RenderModel == <<content, rendered, vp, loader, merr>>

LoopEvent ==
    \/ UIStart \/ UpdateChunk \/ UpdateDone \/ UpdateKeyQuit
    \/ UpdateLoaderStep \/ UpdateEllipsisTick \/ UpdateWindowSize

C17_Frame ==
    [][/\ Pump => UNCHANGED <<RenderModel, uiVars, viewVars, cfgVars, ctxVars, mainVars>>
       /\ (FetchSelect \/ FetchClosed \/ Start \/ Return \/ Tick)
             => UNCHANGED RenderModel
       /\ RenderModel' # RenderModel => LoopEvent]_vars

\* the pump has handed over a fragment and published an outcome, and the render
\* loop has changed every part of its model, the loader by a step of its timer
C17_Witness ==
    /\ hist.received > 0 /\ hist.published > 0
    /\ content # << >> /\ rendered # << >>
    /\ vp.windowHeight > 0 /\ loader.ellipsisIdx > 0 /\ ~loader.active
    /\ merr # NoErr

(***************************************************************************)
(* C18.  deferredCloser, pump revision, with one Set and the Close calls   *)
(* of the pump's defer and of every interrupt key, in every interleaving:  *)
(* the registered function (stream.Close) runs at most once, and exactly   *)
(* once when Set and a Close have been called and no Close is under way;   *)
(* a Set on a closed closer runs it in the Set itself and a Set on an open *)
(* one does not; a Close runs it only if it is the first Close and Set has *)
(* come before it; every later Close leaves the closer as it is and runs   *)
(* nothing; and nothing else runs it.                                      *)
(***************************************************************************)
CloserAtRest ==
    /\ hist.opened /\ pumpPc \notin {"set", "dclosefn"} /\ uiPc # "key2fn"
    /\ closer.closed

C18_CloserOnce ==
    [][rev = "pump" =>
        /\ streamCloses' <= 1
        /\ CloserAtRest' => streamCloses' = 1
        /\ PumpSet => streamCloses' = streamCloses + (IF closer.closed THEN 1 ELSE 0)
        /\ (PumpDeferClose \/ UpdateKeyClose) =>
              /\ closer'.closed
              /\ closer.closed => closer' = closer
        /\ PumpDeferClose => (pumpPc' = "dclosefn" <=> (~closer.closed /\ closer.fn))
        /\ UpdateKeyClose => (uiPc' = "key2fn" <=> (~closer.closed /\ closer.fn))
        /\ (PumpDeferCloseFn \/ UpdateKeyCloseFn) => streamCloses = 0 /\ closer.fn
        /\ streamCloses' # streamCloses
              => PumpSet \/ PumpDeferCloseFn \/ UpdateKeyCloseFn]_vars

\* an interrupt key closed the closer before Set, Set ran the function, and the
\* pump's Close and a second key's Close came after it
C18_Witness ==
    /\ rev = "pump" /\ closer.closed /\ ~closer.fn /\ streamCloses = 1
    /\ pumpPc = "exit" /\ keys = MaxKeys + MaxMoreKeys /\ uiPc = "exited"

\* Set came first and the first Close, the pump's, ran the function; the key's
\* Close after it ran nothing
C18_WitnessSetFirst ==
    /\ rev = "pump" /\ closer.closed /\ closer.fn /\ streamCloses = 1
    /\ pumpPc = "exit" /\ hist.interrupted /\ uiPc = "exited"

(***************************************************************************)
(* C19.  Orchestrator termination: whenever the render loop (the raw loop  *)
(* or the started tea program) has ended, for whatever reason,             *)
(* CreateChatCompletionStreamWithMarkdown eventually returns, even if the  *)
(* caller's context is never cancelled.                                    *)
(***************************************************************************)
LoopEnded == uiPc = "exited" /\ (raw \/ hist.uiFrames > 0)

C19_Termination == LoopEnded ~> (mainPc = "returned")

\* the same for the revision of chat.go alone, which does not wait for the pump
C19_OnceRevision == (rev = "once" /\ LoopEnded) ~> (mainPc = "returned")

\* the state in which the pump revision waits for ever: the loop has ended
\* without an interrupt key, the caller has not cancelled, the orchestrator is at
\* <-pump.done and the pump is parked in its select with a fragment to send
C19_Stuck ==
    /\ rev = "pump" /\ LoopEnded /\ mainPc = "wait"
    /\ pumpPc = "sendParked" /\ readerErr = NoErr /\ doneSlot = << >>

(***************************************************************************)
(* C20 as written.  On every termination path of the pump after a         *)
(* successful open, stream.Close has been invoked when the terminal        *)
(* outcome is published, and the outcome has been published when the queue *)
(* is closed.                                                              *)
(***************************************************************************)
C20_AsWritten ==
    /\ (hist.opened /\ hist.published > 0) => streamCloses = 1
    /\ chanCloses > 0 => hist.published > 0

(***************************************************************************)
(* C20.  On every termination path of the pump the terminal outcome is     *)
(* published before the queue is closed, so that when the consumer has     *)
(* seen the queue closed the outcome is in its slot (or has been taken     *)
(* from it) and reading it does not block.  In the pump revision, after a  *)
(* successful open, the closer has been closed when the outcome is         *)
(* published, and stream.Close has run by then unless an interrupt key's   *)
(* Close has taken the function and not yet called it.  In chat.go the     *)
(* goroutine does not close the stream: without an interrupt key the       *)
(* stream is closed only when the orchestrator returns.                    *)
(***************************************************************************)
C20_TerminationOrder ==
    /\ chanCloses > 0 => hist.published = 1
    /\ (fetch = FetchSawClosed /\ rev = "once") => Len(doneSlot) = 1
    /\ (rev = "pump" /\ chanCloses > 0 /\ mainPc # "returned") => Len(doneSlot) = 1
    /\ (rev = "pump" /\ hist.opened /\ hist.published > 0) =>
          /\ closer.closed
          /\ streamCloses = 1 \/ uiPc = "key2fn"
    /\ (rev = "once" /\ streamCloses > 0) => hist.interrupted \/ mainPc = "returned"

\* the pump revision after a graceful end: stream closed, outcome published,
\* queue closed, and the consumer has seen the end of the queue
C20_Witness ==
    /\ rev = "pump" /\ hist.opened /\ pumpPc = "exit"
    /\ streamCloses = 1 /\ hist.published = 1 /\ chanCloses = 1
    /\ hist.doneNil /\ ~hist.interrupted

(***************************************************************************)
(* C21 as written.  When the open of the stream has failed, the call, once *)
(* it has returned, has returned the open error.                           *)
(***************************************************************************)
C21_AsWritten ==
    (hist.openFailed /\ mainPc = "returned") => result.kind = "open"

(***************************************************************************)
(* C21.  When the open of the stream has failed: no fragment is obtained   *)
(* or placed on the queue, stream.Close is never called, no rendering is   *)
(* written to w (nothing at all when opts.UIWriter is set), and Recv is    *)
(* never called.  In the pump revision the open error is the pump's        *)
(* outcome, the one it publishes, and the call returns it unless the       *)
(* render loop ended with an error of its own that is not Canceled, which  *)
(* is then returned.  In chat.go no pump is started and the call returns   *)
(* the open error at once.                                                 *)
(***************************************************************************)
C21_OpenFailure ==
    hist.openFailed =>
        /\ hist.obtained = 0 /\ hist.received = 0 /\ hist.recvCalls = 0
        /\ streamCloses = 0 /\ ~hist.opened
        /\ sink = << >> /\ WritesToW(TRUE) = 0
        /\ rev = "pump" =>
              /\ finalErr.kind = "open"
              /\ hist.published = 1 => hist.pubErr = finalErr
              /\ mainPc = "returned" =>
                    result = IF uiErr # NoErr /\ ~IsCanceled(uiErr) THEN uiErr
                             ELSE finalErr
        /\ rev = "once" =>
              /\ mainPc = "returned" /\ result.kind = "open"
              /\ pumpPc = "idle" /\ uiPc = "idle" /\ hist.published = 0

\* the pump revision has returned the open error after the loop saw the queue
\* closed and ended without an error
C21_Witness ==
    /\ rev = "pump" /\ hist.openFailed /\ mainPc = "returned"
    /\ result.kind = "open" /\ uiErr = NoErr /\ hist.doneNil /\ pumpPc = "exit"

(***************************************************************************)
(* C22.  When the pump is blocked in its select with a fragment to send    *)
(* and its context is cancelled before a fragment-wait takes the fragment: *)
(* the pump takes the ctx.Done() case, its outcome is the context's error  *)
(* (Canceled), which is what it publishes; the fragment is not handed to   *)
(* any fragment-wait, then or later; and the pump does not call Recv       *)
(* again.                                                                  *)
(***************************************************************************)
\* the pump has taken, or is bound to take, the ctx.Done() case of its select
TookDone == pumpPc = "sendWoken" \/ (PumpPastLoop /\ finalErr = ErrCanceled)

C22_CancelWhileBlocked ==
    [][/\ (pumpPc = "sendParked" /\ readerErr = NoErr /\ readerErr' # NoErr)
             => pumpPc' = "sendWoken" /\ hist'.received = hist.received
       /\ (pumpPc = "sendWoken" /\ pumpPc' # "sendWoken")
             => pumpPc' = PumpDefers /\ finalErr' = ErrCanceled
       /\ TookDone =>
             /\ TookDone'
             /\ hist'.recvCalls = hist.recvCalls /\ pos' = pos
             /\ hist'.received = hist.received
             /\ hist.received = hist.obtained - 1
             /\ fetch'.st = "chunk" => fetch' = fetch
             /\ hist'.published = 1 => hist'.pubErr = ErrCanceled]_vars

\* the pump was blocked with its first fragment, which no fragment-wait had
\* taken, when an interrupt key cancelled its context
C22_Witness ==
    /\ pumpPc = "sendWoken" /\ readerErr = ErrCanceled /\ cur # EmptyText
    /\ hist.interrupted /\ callerErr = NoErr
    /\ hist.received = 0 /\ hist.obtained = 1

(***************************************************************************)
(* C23.  A decoded record with no choices, or whose first choice has an    *)
(* empty delta, is not an error and does not end the stream: the pump      *)
(* that has read it is at its next Recv, with its outcome, the fragments   *)
(* it obtained and the queue as they were; no empty text is ever on the    *)
(* pump's queue.  And when the render loop is handed an empty text by its  *)
(* fragment source, its handling changes neither the accumulated text,     *)
(* the rendered text, the loader (its stop flag included), the error slot  *)
(* nor the sink, does not end the loop and asks for the next fragment.     *)
(***************************************************************************)
EmptyRecordLines == {LineEmptyDelta, LineNoChoices}

\* the pump's step reads a record of EmptyRecordLines
ReadsEmptyRecord ==
    /\ PumpRecv /\ pos' = pos + 1
    /\ input.lines[pos] \in EmptyRecordLines

\* the loop's step handles an empty text
HandlesEmptyText ==
    /\ UpdateChunk \/ streamRaw
    /\ fetch.st = "chunk" /\ fetch.text = EmptyText

C23_EmptyFragment ==
    [][/\ ReadsEmptyRecord =>
             /\ pumpPc' = "recv" /\ finalErr' = finalErr /\ cur' = cur
             /\ hist'.obtained = hist.obtained /\ ~hist'.recvFailed
             /\ fetch' = fetch /\ chanCloses' = chanCloses /\ doneSlot' = doneSlot
       /\ (pumpPc' # "idle" /\ fetch'.st = "chunk") => fetch'.text # EmptyText
       /\ HandlesEmptyText =>
             /\ content' = content /\ rendered' = rendered /\ loader' = loader
             /\ merr' = merr /\ sink' = sink /\ vp' = vp
             /\ quitPending' = quitPending /\ uiPc' = uiPc
             /\ fetch' = FetchIssued]_vars

\* the pump has read a record without choices and then a fragment, which the
\* loop has appended
C23_Witness ==
    /\ input.lines = <<LineNoChoices, LineHi>> /\ pos = 3
    /\ hist.recvCalls = 2 /\ hist.obtained = 1 /\ hist.appended = 1
    /\ Accumulated = TextHi /\ finalErr = NoErr

\* the loop, in viewport mode, has been handed an empty text and then a
\* fragment: it has appended the fragment only
C23_WitnessLoop ==
    /\ pumpPc = "idle" /\ ~raw /\ hist.received = 2 /\ hist.appended = 1
    /\ content = TextRow /\ loader.shouldStop

(***************************************************************************)
(* C24.  After the render loop has processed an interrupt key, the error   *)
(* slot of the model holds Canceled when the loop has exited: no event     *)
(* processed between the interrupt and the exit replaces or clears it.     *)
(***************************************************************************)
C24_CanceledKept ==
    (hist.userCancels > 0 /\ uiPc = "exited") => merr = ErrCanceled

\* what holds: the interrupt cancels the fetch scope and asks the loop to end,
\* and the slot is never cleared; it holds Canceled unless a done event with
\* another error or a failed render came after the key
C24_CanceledUnlessReplaced ==
    hist.userCancels > 0 =>
        /\ chunkErr # NoErr /\ readerErr # NoErr
        /\ uiPc = "loop" => quitPending
        /\ merr # NoErr
        /\ (rev = "pump" /\ ~hist.renderFailed) => merr = ErrCanceled

(***************************************************************************)
(* C25: the wrapped interrupt callback cancels the pump's scope, then      *)
(* closes the pump's stream handle, then calls the caller's callback.      *)
(***************************************************************************)
\* a stream is registered with the handle the callback closes: the closer
\* holds its function (pump revision); the stream is open before the
\* callback exists (chat.go)
StreamRegistered == IF rev = "pump" THEN closer.fn ELSE TRUE

\* C25 as stated: when the caller's callback is called, the pump's scope is
\* cancelled and, if a stream is registered, its close has been invoked
C25_AsWritten ==
    [][UpdateKeyQuit => (readerErr # NoErr /\ (StreamRegistered => streamCloses > 0))]_vars

\* C25: the callback's close comes after the cancellation of the pump's
\* scope, and the caller's callback after both: when it is called the scope
\* is cancelled and the handle is closed; a registered stream's close has
\* been invoked, or (pump revision) the pump's own deferred Close took the
\* function and is about to call it; the stream is never closed twice
C25_CallbackOrder ==
    [][/\ UpdateKeyClose => readerErr # NoErr
       /\ UpdateKeyQuit =>
             /\ readerErr # NoErr
             /\ hist'.userCancels = hist.userCancels + 1
             /\ streamCloses <= 1
             /\ rev = "pump" =>
                   /\ closer.closed
                   /\ closer.fn => (streamCloses = 1 \/ pumpPc = "dclosefn")
             /\ rev = "once" => (onceDone /\ streamCloses = 1)]_vars

\* the caller's callback has run after the callback itself closed a
\* registered stream, in the pump revision
C25_Witness ==
    /\ rev = "pump" /\ hist.userCancels > 0 /\ closer.fn /\ streamCloses = 1
    /\ pumpPc \notin {"dclose", "dclosefn", "dpublish", "dclosech", "exit"}

\* the same in chat.go
C25_WitnessOnce ==
    rev = "once" /\ hist.userCancels > 0 /\ streamCloses = 1 /\ pumpPc = "recv"

(***************************************************************************)
(* C26: a done event ends the render loop and arms the loader stop; the    *)
(* error it carries is recorded, and without one the slot is left alone.   *)
(***************************************************************************)
\* C26: the step that handles a done event returns tea.Quit, leaves no fetch
\* behind, sets the loader's stop request without hiding the loader, stores
\* a carried error in the slot, and keeps the slot's value when it carries
\* none; the texts and the viewport stay
C26_DoneEvent ==
    [][UpdateDone =>
          /\ quitPending' /\ uiPc' = "loop" /\ fetch' = FetchNone
          /\ loader'.shouldStop /\ loader' = requestStop(loader)
          /\ fetch.err # NoErr => merr' = fetch.err
          /\ fetch.err = NoErr => merr' = merr
          /\ content' = content /\ rendered' = rendered /\ vp' = vp]_vars

\* a done event without an error was handled after the interrupt key had set
\* the slot, which it keeps
C26_Witness ==
    /\ hist.doneNil /\ hist.userCancels > 0 /\ merr = ErrCanceled
    /\ quitPending /\ loader.shouldStop

\* a done event with the source's error was handled: the slot holds it
C26_WitnessErr ==
    merr = FeedErr /\ quitPending /\ loader.shouldStop /\ uiPc = "loop"

(***************************************************************************)
(* C27: at most one fragment-fetch is in flight; fetches are issued on the *)
(* start-stream event and after a processed fragment only.                 *)
(***************************************************************************)
\* a step of the viewport loop that issues a fetch
IssuesFetch == ~raw /\ fetch'.st = "issued" /\ fetch.st # "issued"

\* C27 as stated: a fetch is issued only while no fetch is in flight, by the
\* start-stream event or after a processed fragment, and never after a done
\* event, an interrupt or a render error
C27_AsWritten ==
    [][IssuesFetch =>
          /\ (UpdateStartStream /\ fetch = FetchNone) \/ (UpdateChunk /\ fetch.st = "chunk")
          /\ ~quitPending /\ ~hist.interrupted /\ ~hist.renderFailed]_vars

\* C27: a fetch is issued only while none is in flight: by the one
\* start-stream event, or by the fragment event that carries the previous
\* fetch's text, once that text is appended and rendered; never after a
\* render error or a done event (a quit is pending then only from an
\* interrupt key, and a started loop without a fetch stays without one); the
\* fragment-wait that saw the queue closed finds the terminal outcome in its
\* slot, so the slot is read once
C27_OneFetch ==
    [][/\ IssuesFetch =>
             /\ \/ UpdateStartStream /\ fetch = FetchNone /\ ~started
                \/ /\ UpdateChunk /\ fetch.st = "chunk"
                   /\ content' = appendText(content, fetch.text)
                   /\ rendered' = RenderedOf(content')
             /\ ~hist.renderFailed
             /\ quitPending => hist.userCancels > 0
       /\ (~raw /\ started /\ fetch = FetchNone) => fetch' = FetchNone
       /\ (rev = "once" /\ fetch.st = "sawClosed") => Len(doneSlot) = 1
       /\ Len(doneSlot') < Len(doneSlot) => (Len(doneSlot) = 1 /\ hist.published = 1)]_vars

\* the second fetch is in flight after the first fragment was appended and
\* rendered
C27_Witness ==
    ~raw /\ hist.appended = 1 /\ fetch.st = "issued" /\ rendered # EmptyText
       /\ ~hist.interrupted

\* a fetch is in flight that was issued after the interrupt key was handled:
\* the key came before any text was appended, and the fragment event handled
\* after it issued the fetch
C27_WitnessAfterKey ==
    /\ ~raw /\ hist.userCancels > 0 /\ callerErr = NoErr /\ hist.cancelEarly
    /\ hist.appended = 1 /\ fetch.st = "issued" /\ uiPc = "loop"

(***************************************************************************)
(* C28: the render loop asks for no fragment before the warm-up's          *)
(* start-stream event is handled.                                          *)
(***************************************************************************)
\* C28: in the viewport mode, while the start-stream event has not been
\* handled no fetch exists, no fragment has left the queue and the loop holds
\* no text; once it has been handled the program has drawn a frame
C28_WarmUp ==
    /\ (~raw /\ ~started) =>
          /\ fetch = FetchNone
          /\ hist.received = 0 /\ hist.appended = 0
          /\ content = EmptyText /\ rendered = EmptyText
    /\ (~raw /\ started) => hist.uiFrames > 0

\* the loop runs its warm-up while the pump already holds a fragment for it
C28_Witness ==
    ~raw /\ uiPc = "loop" /\ ~started /\ pumpPc = "sendParked" /\ hist.obtained = 1

(***************************************************************************)
(* C29: the loading phase, in which the loader is drawn and the viewport   *)
(* is not.                                                                 *)
(***************************************************************************)
\* C29 as stated: in every state of the loop after the first non-empty
\* fragment was appended and rendered, the frame drawn is the viewport
C29_AsWritten ==
    (~raw /\ uiPc = "loop" /\ rendered # EmptyText) => viewShows(loader) = "viewport"

\* C29: once a fragment is appended and rendered the loader's stop is
\* requested; the frame drawn is the loader's as long as minVisible has not
\* passed since the loader was first displayed, fragment or not, and the
\* viewport is drawn only after a stop request
C29_LoadingPhase ==
    (~raw /\ loader.made) =>
        /\ (uiPc = "loop" /\ rendered # EmptyText) => loader.shouldStop
        /\ now < loader.displayStart + minVisible => viewShows(loader) = "loader"
        /\ viewShows(loader) = "viewport" => loader.shouldStop

\* a fragment is appended and rendered, a loader step has run since, and the
\* loader is still the frame drawn
C29_Witness ==
    /\ ~raw /\ uiPc = "loop" /\ rendered # EmptyText /\ hist.updatedAfterStop
    /\ ~hist.doneNil /\ merr = NoErr
    /\ viewShows(loader) = "loader"

\* the viewport is drawn, with the rendered text
C29_WitnessViewport ==
    ~raw /\ uiPc = "loop" /\ rendered # EmptyText /\ viewShows(loader) = "viewport"

(***************************************************************************)
(* C30: a terminal-resize event stores the window's size and lays the      *)
(* viewport out again, and changes nothing else.                           *)
(***************************************************************************)
\* C30: the step that handles a resize stores the event's width and height,
\* gives the viewport the event's width and the height of the window or,
\* when the rendered text has fewer lines, of the text; content, rendered,
\* the loader, the error slot and the timers stay, no fetch is issued or
\* dropped and no quit is asked for
C30_Resize ==
    [][UpdateWindowSize =>
          /\ \E sz \in WindowSizes :
                /\ vp'.windowWidth = sz.Width /\ vp'.windowHeight = sz.Height
                /\ vp'.Width = sz.Width
          /\ vp'.Height = LET n == contentLineCount(rendered)
                          IN  IF n > 0 /\ n < vp'.windowHeight THEN n
                              ELSE vp'.windowHeight
          /\ content' = content /\ rendered' = rendered
          /\ loader' = loader /\ merr' = merr /\ timers' = timers
          /\ fetch' = fetch /\ started' = started
          /\ quitPending' = quitPending /\ uiPc' = "loop"]_vars

\* the terminal reported three rows while two rendered lines are held and a
\* fetch is in flight: the viewport is two rows high
C30_Witness ==
    /\ ~raw /\ uiPc = "loop" /\ rendered # EmptyText /\ fetch.st = "issued"
    /\ vp.windowHeight = 3 /\ vp.Width = 4 /\ vp.Height = 2 /\ ~quitPending

\* the terminal reported three rows before any text: the viewport has three
C30_WitnessEmpty ==
    ~raw /\ uiPc = "loop" /\ rendered = EmptyText /\ vp.windowHeight = 3 /\ vp.Height = 3

(***************************************************************************)
(* C31: the viewport's height is the lesser of the window's height and the *)
(* rendered text's line count, and at least 1.                             *)
(***************************************************************************)
Max2(a, b) == IF a > b THEN a ELSE b
Min2(a, b) == IF a < b THEN a ELSE b

\* the loop holds rendered text or a reported window size: a fragment or a
\* resize has been processed
ViewportLaidOut == ~raw /\ uiPc = "loop" /\ (rendered # EmptyText \/ vp.windowHeight > 0)

\* C31 as stated: after every processed fragment and every resize the
\* viewport's height is max(1, min(window height, rendered lines)), where a
\* stored window height of 0 (no resize received yet) and a line count of 0
\* (nothing rendered yet) set no limit
C31_ViewportHeight ==
    ViewportLaidOut =>
        vp.Height = IF vp.windowHeight = 0 THEN Max2(1, contentLineCount(rendered))
                    ELSE IF rendered = EmptyText THEN vp.windowHeight
                    ELSE Max2(1, Min2(vp.windowHeight, contentLineCount(rendered)))

\* what holds: with a reported window size the height is as stated; without
\* one it is between 1 and the number of rendered lines
C31_KnownWindow ==
    ViewportLaidOut =>
        /\ (vp.windowHeight > 0 /\ rendered # EmptyText) =>
              vp.Height = Max2(1, Min2(vp.windowHeight, contentLineCount(rendered)))
        /\ (vp.windowHeight > 0 /\ rendered = EmptyText) => vp.Height = vp.windowHeight
        /\ vp.windowHeight = 0 =>
              (vp.Height >= 1 /\ vp.Height <= contentLineCount(rendered))

\* the text has grown to three lines under a window of three rows, and the
\* viewport with it
C31_WitnessGrown ==
    ViewportLaidOut /\ vp.windowHeight = 3 /\ contentLineCount(rendered) = 3 /\ vp.Height = 3

(***************************************************************************)
(* C32: the end of the input before any sentinel line is the end of the    *)
(* stream, and a last line without its newline gives no fragment.          *)
(***************************************************************************)
\* the non-empty first-choice deltas of the input's lines that end in a
\* newline
TerminatedDeltas(in) ==
    DeltasUpTo(in.lines, IF in.term THEN Len(in.lines) ELSE Len(in.lines) - 1,
               IsDataLine, Payload)

\* no line of the input is the sentinel
NoSentinel(in) == \A i \in 1 .. Len(in.lines) : TrimSpace(in.lines[i]) # LineDone

\* the pipeline ran without cancellation, interrupt, transport, render or
\* write failure
Undisturbed ==
    /\ hist.opened /\ ~Triggered
    /\ ~hist.recvFailed /\ ~hist.renderFailed /\ ~hist.writeFailed

\* C32: on an input without a sentinel line, a pump that has left its loop
\* with a nil error has obtained exactly the deltas of the lines that end in
\* a newline, and an undisturbed call has returned nil with exactly their
\* text and, in the pump revision, a nil terminal outcome
C32_EndOfInput ==
    NoSentinel(input) =>
        /\ (hist.opened /\ PumpPastLoop /\ finalErr = NoErr) =>
              hist.obtained = Len(TerminatedDeltas(input))
        /\ (Undisturbed /\ mainPc = "returned") =>
              /\ result = NoErr
              /\ Accumulated = Flatten(TerminatedDeltas(input))
              /\ rev = "pump" => hist.pumpErr = NoErr
              /\ hist.published = 1 => hist.pubErr = NoErr

\* the call has returned nil on "data: Hi" followed by "data: t" without a
\* newline: the text is "Hi"
C32_Witness ==
    /\ input = [lines |-> <<LineHi, LineThere>>, term |-> FALSE]
    /\ Undisturbed /\ mainPc = "returned" /\ result = NoErr
    /\ Accumulated = TextHi /\ hist.obtained = 1 /\ hist.published = 1

(***************************************************************************)
(* C33: no pump is left running behind a call that has returned.           *)
(***************************************************************************)
PumpGone == pumpPc \in {"idle", "exit"}

\* C33: when CreateChatCompletionStreamWithMarkdown has returned the pump's
\* scope is cancelled and the opened stream closed, and the pump goroutine,
\* scheduled fairly, ends (or was never started), whether or not a
\* fragment-wait ever runs again
C33_NoPumpLeak ==
    /\ [](mainPc = "returned" => (readerErr # NoErr /\ (hist.opened => streamCloses = 1)))
    /\ (mainPc = "returned") ~> PumpGone

\* chat.go has returned while its goroutine was blocked enqueueing a fragment
C33_Witness ==
    rev = "once" /\ mainPc = "returned" /\ pumpPc = "sendWoken" /\ hist.obtained = 1

\* chat.go has returned while its goroutine is in Recv
C33_WitnessRecv ==
    rev = "once" /\ mainPc = "returned" /\ pumpPc = "recv" /\ hist.recvCalls = 0

(***************************************************************************)
(* C34: the loader's active flag goes from true to false once, in a loader *)
(* tick's update, and an inactive loader is left alone.                    *)
(***************************************************************************)
\* C34: the active flag of the loop's loader changes only from true to
\* false, only in the step that handles a loader tick, and only with a stop
\* requested and minVisible passed since displayStart; an inactive loader is
\* changed by no step, nor by update or advanceEllipsis; the tick handled on
\* an inactive loader, or whose update deactivates it, is not scheduled
\* again, and a timer that is not scheduled stays so
C34_ActiveFlag ==
    [][loader.made =>
          /\ loader'.active # loader.active =>
                /\ loader.active /\ UpdateLoaderStep
                /\ loader.shouldStop /\ now - loader.displayStart >= minVisible
          /\ ~loader.active =>
                /\ loader' = loader
                /\ update(loader, now, PipeGlyphs) = loader
                /\ advanceEllipsis(loader) = loader
          /\ (UpdateLoaderStep /\ ~loader'.active) => ~timers'.step
          /\ (UpdateEllipsisTick /\ ~loader.active) => ~timers'.ellipsis
          /\ ~timers.step => ~timers'.step
          /\ ~timers.ellipsis => ~timers'.ellipsis]_vars

\* the loader was deactivated by a loader tick and both timers have run out
C34_Witness ==
    /\ uiPc = "loop" /\ loader.made /\ ~loader.active /\ loader.shouldStop
    /\ ~timers.step /\ ~timers.ellipsis
    /\ now >= loader.displayStart + minVisible

(***************************************************************************)
(* C35: the state of a loader cell.                                        *)
(***************************************************************************)
\* the cells of a loader of part_005
CellsOf(l) ==
    {l.cyclingChars[i] : i \in 1 .. Len(l.cyclingChars)}
        \cup {l.labelChars[i] : i \in 1 .. Len(l.labelChars)}

StateRank(st) ==
    CASE st = "loaderInitial" -> 0 [] st = "loaderCycling" -> 1 [] st = "loaderSettled" -> 2

\* C35: for every cell of the loader and every instant t, state is Initial
\* iff t < start + initialDelay, Settled iff the cell has a positive final
\* value and a positive lifetime and t > start + initialDelay + lifetime, and
\* Cycling otherwise; at a later instant the state is the same or a later
\* one, and a cell without a final value is Settled at no instant
C35_CellState ==
    loader.made =>
        \A c \in CellsOf(loader) : \A t \in Instants :
            LET st == charState(c, loader.start, t)
            IN  /\ st \in {"loaderInitial", "loaderCycling", "loaderSettled"}
                /\ st = "loaderInitial" <=> t < loader.start + c.initialDelay
                /\ st = "loaderSettled" <=>
                      /\ c.finalValue > 0 /\ c.lifetime > 0
                      /\ t > loader.start + c.initialDelay + c.lifetime
                /\ c.finalValue <= 0 => st # "loaderSettled"
                /\ \A u \in Instants :
                      u >= t => StateRank(charState(c, loader.start, u)) >= StateRank(st)

\* a label cell is Settled now and was Cycling at the loader's construction,
\* beside a cell without a final value that is Cycling
C35_Witness ==
    /\ loader.made /\ now >= minVisible
    /\ \E c \in CellsOf(loader) :
          /\ c.finalValue > 0
          /\ charState(c, loader.start, 0) = "loaderCycling"
          /\ charState(c, loader.start, now) = "loaderSettled"
          /\ c.currentValue = c.finalValue
    /\ \E c \in CellsOf(loader) :
          c.finalValue <= 0 /\ charState(c, loader.start, now) = "loaderCycling"

(***************************************************************************)
(* C36: the label cells on the first frame, which is drawn when the time   *)
(* since start is loaderInitialBoost.                                      *)
(***************************************************************************)
\* the loader is as newLoader or an update without time passed left it
FirstFrame == loader.made /\ now = loader.displayStart

\* C36 as stated: on the first frame every label cell is Settled and shows
\* its final value
C36_LabelSettled ==
    FirstFrame =>
        \A i \in 1 .. Len(loader.labelChars) :
            LET c == loader.labelChars[i]
            IN  /\ charState(c, loader.start, now) = "loaderSettled"
                /\ c.currentValue = c.finalValue

\* what holds: on the first frame a label cell shows its final value when
\* its initial delay and lifetime together are below loaderInitialBoost, and
\* a random rune otherwise
C36_FirstFrame ==
    FirstFrame =>
        \A i \in 1 .. Len(loader.labelChars) :
            LET c == loader.labelChars[i]
            IN  IF c.initialDelay + c.lifetime < loaderInitialBoost
                THEN c.currentValue = c.finalValue
                ELSE c.currentValue \in Glyphs

\* a first frame whose label cell is settled
C36_WitnessSettled ==
    FirstFrame /\ loader.labelChars[1].currentValue = loader.labelChars[1].finalValue

(***************************************************************************)
(* C37: the ellipsis of the loop's loader.                                 *)
(***************************************************************************)
Dots(n) == [k \in 1 .. n |-> 46]

\* the frame after frame i, in the order "", ".", "..", "..."
FrameAfter(i) == IF i = 3 THEN 0 ELSE i + 1

\* the frame text ends with one space, the dots and padding spaces only
ShowsDots(text, n) ==
    \E k \in 1 .. Len(text) :
        /\ \A j \in 1 .. k - 1 : text[j] # 32
        /\ k + n <= Len(text)
        /\ SubSeq(text, k, k + n) = <<32>> \o Dots(n)
        /\ \A j \in k + n + 1 .. Len(text) : text[j] = 32

\* C37: the ellipsis index is within 0..3 and View shows as many dots as the
\* index; on an active loader four calls of advanceEllipsis, and no fewer,
\* give the loader back; a step changes the index only by handling an
\* ellipsis tick on an active loader, to the next frame in cyclic order and
\* leaving every cell as it is; the step of a loader tick leaves the index
\* as it is
C37_Ellipsis ==
    /\ [](loader.made =>
            /\ loader.ellipsisIdx \in 0 .. 3
            /\ ellipsisFrames[loader.ellipsisIdx + 1] = Dots(loader.ellipsisIdx)
            /\ ShowsDots(loaderView(loader).text, loader.ellipsisIdx)
            /\ loader.active =>
                  LET l1 == advanceEllipsis(loader)
                      l2 == advanceEllipsis(l1)
                      l3 == advanceEllipsis(l2)
                  IN  /\ advanceEllipsis(l3) = loader
                      /\ loader \notin {l1, l2, l3})
    /\ [][loader.made =>
            /\ loader'.ellipsisIdx # loader.ellipsisIdx =>
                  /\ UpdateEllipsisTick /\ loader.active
                  /\ loader'.ellipsisIdx = FrameAfter(loader.ellipsisIdx)
            /\ (UpdateEllipsisTick /\ loader.active) =>
                  /\ loader'.ellipsisIdx = FrameAfter(loader.ellipsisIdx)
                  /\ loader'.cyclingChars = loader.cyclingChars
            /\ UpdateLoaderStep => loader'.ellipsisIdx = loader.ellipsisIdx]_vars

\* the ellipsis of an active loader is at its last frame and an update has
\* given a cell a random rune
C37_Witness ==
    /\ uiPc = "loop" /\ loader.made /\ loader.active /\ loader.ellipsisIdx = 3
    /\ \E i \in 1 .. Len(loader.cyclingChars) : loader.cyclingChars[i].currentValue \in Glyphs
    /\ timers.ellipsis

(***************************************************************************)
(* C38: the width of the loader's frames.                                  *)
(***************************************************************************)
\* the runes of the frame before padding: the cells that are not zero, or
\* the dots that stand for them, one space and the ellipsis
RawWidth(l) ==
    LET n == Cardinality({i \in 1 .. Len(l.cyclingChars) :
                             l.cyclingChars[i].currentValue # ZeroRune})
    IN  (IF n = 0 THEN LoaderCells \div 2 ELSE n) + 1 + l.ellipsisIdx

\* C38: the frame that View returns for the loader is never narrower than
\* lastWidth: a text that is narrower is followed by spaces up to lastWidth,
\* any other frame is its text; lastWidth is changed by View only, which
\* makes it the width of the frame it returns, so that no frame is narrower
\* than an earlier frame of the loader
C38_FrameWidth ==
    /\ [](loader.made =>
            LET frame == loaderView(loader).text
            IN  /\ Len(frame) >= loader.lastWidth
                /\ Len(frame) = Max2(RawWidth(loader), loader.lastWidth)
                /\ \A j \in RawWidth(loader) + 1 .. Len(frame) : frame[j] = 32
                /\ frame[RawWidth(loader)] # 32 \/ loader.ellipsisIdx = 0
                /\ loaderView(loader).l.lastWidth = Len(frame))
    /\ [][/\ loader'.lastWidth # loader.lastWidth =>
                /\ LoaderView
                /\ loader'.lastWidth = Len(loaderView(loader).text)
           /\ loader'.lastWidth >= loader.lastWidth]_vars

\* View has returned the widest frame and the ellipsis has gone back to its
\* first frame: the next frame is padded
C38_Witness ==
    /\ loader.made /\ loader.lastWidth = LoaderCells + 4
    /\ loader.ellipsisIdx = 0 /\ RawWidth(loader) < loader.lastWidth
    /\ Len(loaderView(loader).text) = loader.lastWidth

(***************************************************************************)
(* C39: what the error of a failed decoding carries.                       *)
(***************************************************************************)
\* the line on which Recv failed, and the error it returned
FailedLine == input.lines[rPos - 1]
FailedErr == Recv(input, rPos - 1).err

\* p occurs in the text
Occurs(p, text) ==
    \E i \in 1 .. Len(text) - Len(p) + 1 : SubSeq(text, i, i + Len(p) - 1) = p

\* C39 as stated: the error Recv returns for a payload that does not decode
\* carries that payload
C39_PayloadCarried ==
    rEnd = "decode" => Occurs(Payload(FailedLine), FailedErr.text)

\* what holds: the error is the fixed prefix followed by the decoder's own
\* error, which names one byte and its offset; a longer payload with the
\* same beginning gives the same error
C39_DecodeError ==
    rEnd = "decode" =>
        /\ IsBadLine(FailedLine)
        /\ FailedErr.text[1] = Tok("failed to decode stream chunk: ")
        /\ SubSeq(FailedErr.text, 2, Len(FailedErr.text)) = FailedErr.wrapped.text
        /\ FailedErr.wrapped.Offset \in 1 .. Len(Payload(FailedLine))
        /\ ~Occurs(Payload(FailedLine), FailedErr.text)
        /\ FailedErr = decodeError(Payload(FailedLine) \o <<Sp, Tok("more")>>)

\* Recv failed on a payload after it had returned a fragment
C39_Witness ==
    rEnd = "decode" /\ rOut # << >> /\ IsBadLine(FailedLine)

=============================================================================
